---- MODULE Spec2Model ----
(***************************************************************************)
(* pdfbeaver: the content-stream editing and optimization engine.          *)
(*                                                                         *)
(*   - optimization.py : the two-pass peephole optimizer (optimize_ops)     *)
(*   - editor.py       : StreamEditor.process, the interception/buffering   *)
(*                       pipeline                                           *)
(*   - api.py          : process, modify_page and the walk over embedded    *)
(*                       forms                                              *)
(*   - registry.py     : HandlerRegistry.register                           *)
(*                                                                         *)
(* Numbers.  A Python number in the ordinary range is an integer count of   *)
(* 1/Unit (five decimal places), so that the optimizer's tolerances 0.001   *)
(* and 0.0001 and its rounding to four places are exact integer            *)
(* arithmetic.  The translation part (e, f) of the matrix the optimizer     *)
(* tracks is kept in 1/(Unit*Unit), because tx*a + ty*c has ten decimal     *)
(* places.  A Python int of arbitrary size is sign * (2^exp + off).         *)
(***************************************************************************)
EXTENDS Integers, Sequences, FiniteSets, TLC

VARIABLES
    mode,       \* which program the behaviour exercises: "optimizer", "editor",
                \*   or "stream" (the editor on streams of positioning operators)
    batch,      \* optimizer: the instruction batch handed to optimize_ops
    runs,       \* optimizer: results of successive optimize_ops calls,
                \*   runs[1] = optimize_ops(batch), runs[2] = optimize_ops(runs[1].ops)
    cfg,        \* editor: handler_ops (the registry's modified_operators) and
                \*   whether an optimizer is configured
    steps,      \* editor: the steps pulled from source_iter so far
    pc,         \* editor: where StreamEditor.process is
    ed,         \* editor: _pending_ops, _final_chunks, the tracker, the state
                \*   snapshot carried between steps, the logs of handler
                \*   invocations and of optimizer calls, and what process()
                \*   returned
    api,        \* api: the document, the caller's ProcessingOptions object and
                \*   what the last top-level call did
    reg,        \* registry: _handlers and the outcome of the last registration
    norm,       \* normalization: a value handed to _normalize_instruction and
                \*   what came of it
    ts          \* iterator: the text state of StreamStateIterator and the text
                \*   operators executed on it, each with the state it found

vars == <<mode, batch, runs, cfg, steps, pc, ed, api, reg, norm, ts>>

apiVars == <<api, reg, norm, ts>>

optVars == <<batch, runs>>

edVars == <<cfg, steps, pc, ed>>

----------------------------------------------------------------------------
(* Bounds of the model *)

MaxLen == 5         \* longest batch handed to optimize_ops
MaxRuns == 2        \* optimize_ops is applied to its own output this often
MaxSteps == 4       \* longest stream the tokenizer yields

----------------------------------------------------------------------------
(* Values *)

Unit == 10 * 10000                  \* 1.0

Abs(x) == IF x < 0 THEN -x ELSE x

Min2(x, y) == IF x < y THEN x ELSE y

Max2(x, y) == IF x < y THEN y ELSE x

\* operands: one record shape for every PDF operand the code distinguishes
Num(n) == [k |-> "num", v |-> n, x |-> 0]           \* int/float/Decimal n/Unit
BigInt(sgn, exp, off) == [k |-> "int", v |-> sgn * exp, x |-> off]
                                                    \* the int sgn*(2^exp+off)
Name(i) == [k |-> "name", v |-> i, x |-> 0]         \* pikepdf.Name /F<i>
Str(i) == [k |-> "str", v |-> i, x |-> 0]           \* a string operand
StreamObj == [k |-> "stream", v |-> 0, x |-> 0]     \* pdfminer PDFStream

Instr(op, args, id) == [op |-> op, args |-> args, id |-> id]

Reverse(s) == [i \in 1..Len(s) |-> s[Len(s) + 1 - i]]

\* optimization.py:13-16
TZ_TOL == Unit \div 1000
TF_TOL == Unit \div 1000
TM_TOL == Unit \div 10000
ROUNDING_PLACES == 4

\* largest exponent of a Python int that float() still converts (2^1024 overflows)
FLOAT_MAX_EXP == 1023

\* optimization.py:18
CONVERSION_ERRORS == {"ValueError", "IndexError", "TypeError", "OverflowError"}

\* Python float(x): which exception it raises, or "ok"
FloatError(x) ==
    IF x.k = "num" THEN "ok"
    ELSE IF x.k = "int"
         THEN IF Abs(x.v) > FLOAT_MAX_EXP THEN "OverflowError" ELSE "ok"
    ELSE IF x.k = "str" THEN "ValueError"
    ELSE "TypeError"

\* Python float(x) for a convertible x, in 1/Unit
FloatValue(x) ==
    IF x.k = "num" THEN x.v
    ELSE (IF x.v < 0 THEN -1 ELSE 1) * (2 ^ Abs(x.v) + x.x) * Unit

\* float(operands[i]) (i counted from 1): the exception raised, or "ok"
FloatAtError(operands, i) ==
    IF i > Len(operands) THEN "IndexError" ELSE FloatError(operands[i])

\* [float(x) for x in operands]: the first exception raised, or "ok"
RECURSIVE FloatListErrorFrom(_, _)
FloatListErrorFrom(operands, i) ==
    IF i > Len(operands) THEN "ok"
    ELSE IF FloatError(operands[i]) # "ok" THEN FloatError(operands[i])
    ELSE FloatListErrorFrom(operands, i + 1)

FloatListError(operands) == FloatListErrorFrom(operands, 1)

\* Python round(p/q, ROUNDING_PLACES) read on the exact quotient: nearest, ties
\* to even; the result counted in 10^-ROUNDING_PLACES
RoundDiv(p, q) ==
    LET n == IF q < 0 THEN -p ELSE p
        d == Abs(q)
        fl == IF n >= 0 THEN n \div d ELSE -((-n + d - 1) \div d)
        r2 == 2 * (n - fl * d)
    IN  IF r2 < d THEN fl
        ELSE IF r2 > d THEN fl + 1
        ELSE IF fl % 2 = 0 THEN fl ELSE fl + 1

\* one step of 10^-ROUNDING_PLACES, in 1/Unit
RoundUnit == Unit \div (10 ^ ROUNDING_PLACES)

----------------------------------------------------------------------------
(* optimization.py: pass 1, backward dead-store elimination *)

ShowTextOps == {"Tj", "TJ", "'", "\""}

\* variant: a relative move is never a dead store
is_dead_store_keeping_td(op_name, future_overwrites) ==
    IF op_name = "Tm" THEN "Tm" \in future_overwrites
    ELSE IF op_name = "Tz" THEN "Tz" \in future_overwrites
    ELSE IF op_name = "Tf" THEN "Tf" \in future_overwrites
    ELSE FALSE

\* variant: an absolute position is never a dead store
is_dead_store_keeping_tm(op_name, future_overwrites) ==
    IF op_name = "Td" THEN "Tm" \in future_overwrites
    ELSE IF op_name = "Tz" THEN "Tz" \in future_overwrites
    ELSE IF op_name = "Tf" THEN "Tf" \in future_overwrites
    ELSE FALSE

\* variant: TD is a dead store where Td is
is_dead_store_with_TD(op_name, future_overwrites) ==
    IF op_name \in {"Tm", "Td", "TD"} THEN "Tm" \in future_overwrites
    ELSE IF op_name = "Tz" THEN "Tz" \in future_overwrites
    ELSE IF op_name = "Tf" THEN "Tf" \in future_overwrites
    ELSE FALSE

is_dead_store(op_name, future_overwrites) ==
    IF op_name = "Tm" THEN "Tm" \in future_overwrites
    ELSE IF op_name = "Td" THEN "Tm" \in future_overwrites
    ELSE IF op_name = "Tz" THEN "Tz" \in future_overwrites
    ELSE IF op_name = "Tf" THEN "Tf" \in future_overwrites
    ELSE FALSE

\* variant: a Tm scanned marks only the relative moves as overwritten
update_overwrites_td_only(op_name, future_overwrites) ==
    IF op_name = "Tm" THEN future_overwrites \cup {"Td"}
    ELSE IF op_name = "Tz" THEN future_overwrites \cup {"Tz"}
    ELSE IF op_name = "Tf" THEN future_overwrites \cup {"Tf"}
    ELSE future_overwrites

update_overwrites(op_name, future_overwrites) ==
    IF op_name = "Tm" THEN future_overwrites \cup {"Tm", "Td"}
    ELSE IF op_name = "Tz" THEN future_overwrites \cup {"Tz"}
    ELSE IF op_name = "Tf" THEN future_overwrites \cup {"Tf"}
    ELSE future_overwrites

\* the loop over reversed(ops): i is the instruction being scanned
RECURSIVE remove_dead_stores_loop(_, _, _, _)
remove_dead_stores_loop(ops, i, future_overwrites, rev_optimized) ==
    IF i = 0 THEN Reverse(rev_optimized)
    ELSE IF ops[i].op \in ShowTextOps
         THEN remove_dead_stores_loop(ops, i - 1, {}, Append(rev_optimized, ops[i]))
    ELSE IF is_dead_store(ops[i].op, future_overwrites)
         THEN remove_dead_stores_loop(ops, i - 1, future_overwrites, rev_optimized)
    ELSE remove_dead_stores_loop(ops, i - 1,
                                 update_overwrites(ops[i].op, future_overwrites),
                                 Append(rev_optimized, ops[i]))

remove_dead_stores(ops) == remove_dead_stores_loop(ops, Len(ops), {}, <<>>)

----------------------------------------------------------------------------
(* optimization.py: pass 2, forward consolidation *)

\* Optional values are sequences: None is <<>>, a value v is <<v>>.
\* current_tm, when set, is the list of floats of the last Tm: entries 1..4 in
\* 1/Unit, entries 5.. in 1/(Unit*Unit).
OptimizerState ==
    [current_tz |-> 100 * Unit, current_tf_name |-> <<>>,
     current_tf_size |-> <<>>, current_tm |-> <<>>, has_tm |-> FALSE]

\* what a handler of pass 2 gives back: the instruction to emit (<<>> for
\* None), the state afterwards, and whether an exception escaped
Handled(result, state) == [result |-> result, state |-> state, raised |-> FALSE]

Escaped(state) == [result |-> <<>>, state |-> state, raised |-> TRUE]

\* variant: the tracked scale is not updated when a Tz is kept
handle_tz_untracked(ins, state) ==
    IF FloatAtError(ins.args, 1) \in CONVERSION_ERRORS
    THEN Handled(<<ins>>, state)
    ELSE IF Abs(FloatValue(ins.args[1]) - state.current_tz) < TZ_TOL
         THEN Handled(<<>>, state)
         ELSE Handled(<<ins>>, state)

handle_tz(ins, state) ==
    IF FloatAtError(ins.args, 1) \in CONVERSION_ERRORS
    THEN Handled(<<ins>>, state)
    ELSE LET new_tz == FloatValue(ins.args[1]) IN
         IF Abs(new_tz - state.current_tz) < TZ_TOL
         THEN Handled(<<>>, state)
         ELSE Handled(<<ins>>, [state EXCEPT !.current_tz = new_tz])

\* variant: a Tf is redundant when its size alone matches the tracked one
handle_tf_any_name(ins, state) ==
    IF Len(ins.args) < 1 THEN Handled(<<ins>>, state)
    ELSE LET err == FloatAtError(ins.args, 2) IN
         IF err \in {"ValueError", "IndexError", "TypeError"}
         THEN Handled(<<ins>>, state)
         ELSE IF err # "ok" THEN Escaped(state)
         ELSE IF /\ state.current_tf_size # <<>>
                 /\ Abs(FloatValue(ins.args[2]) - state.current_tf_size[1]) < TF_TOL
              THEN Handled(<<>>, state)
              ELSE Handled(<<ins>>,
                           [state EXCEPT !.current_tf_name = <<ins.args[1]>>,
                                         !.current_tf_size = <<FloatValue(ins.args[2])>>])

\* str(operands[0]) never fails on an operand; operands[0] fails on an empty list
handle_tf(ins, state) ==
    IF Len(ins.args) < 1 THEN Handled(<<ins>>, state)
    ELSE LET err == FloatAtError(ins.args, 2) IN
         IF err \in {"ValueError", "IndexError", "TypeError"}
         THEN Handled(<<ins>>, state)
         ELSE IF err # "ok" THEN Escaped(state)
         ELSE LET new_name == ins.args[1]
                  new_size == FloatValue(ins.args[2])
              IN  IF /\ state.current_tf_name = <<new_name>>
                     /\ state.current_tf_size # <<>>
                     /\ Abs(new_size - state.current_tf_size[1]) < TF_TOL
                  THEN Handled(<<>>, state)
                  ELSE Handled(<<ins>>,
                               [state EXCEPT !.current_tf_name = <<new_name>>,
                                             !.current_tf_size = <<new_size>>])

\* [float(x) for x in operands] as the tracked list
TrackedMatrix(operands) ==
    [i \in 1..Len(operands) |->
        IF i <= 4 THEN FloatValue(operands[i]) ELSE FloatValue(operands[i]) * Unit]

\* all(abs(new_tm[i] - current_tm[i]) < TM_TOL for i in range(4)): "IndexError",
\* or the truth value; all() stops at the first mismatch
RECURSIVE matches_geometry_from(_, _, _)
matches_geometry_from(operands, current_tm, i) ==
    IF i > 4 THEN "True"
    ELSE IF i > Len(operands) \/ i > Len(current_tm) THEN "IndexError"
    ELSE IF ~(Abs(FloatValue(operands[i]) - current_tm[i]) < TM_TOL) THEN "False"
    ELSE matches_geometry_from(operands, current_tm, i + 1)

\* <<>> for None, else the Td that replaces the Tm; ins is the Tm, tracked is
\* state.current_tm with has_tm telling None from a list
try_optimize_tm(ins, has_tm, current_tm) ==
    IF ~has_tm THEN <<>>
    ELSE IF FloatListError(ins.args) # "ok" THEN <<>>
    ELSE IF matches_geometry_from(ins.args, current_tm, 1) # "True" THEN <<>>
    ELSE IF Len(current_tm) < 6 \/ Len(ins.args) < 6 THEN <<>>
    ELSE LET a == current_tm[1]
             b == current_tm[2]
             c == current_tm[3]
             d == current_tm[4]
             e_old == current_tm[5]
             f_old == current_tm[6]
             e_new == FloatValue(ins.args[5]) * Unit
             f_new == FloatValue(ins.args[6]) * Unit
         IN  IF Max2(Abs(b), Abs(c)) < TM_TOL /\ TM_TOL < Min2(Abs(a), Abs(d))
             THEN <<Instr("Td",
                          <<Num(RoundDiv(e_new - e_old, a * RoundUnit) * RoundUnit),
                            Num(RoundDiv(f_new - f_old, d * RoundUnit) * RoundUnit)>>,
                          ins.id)>>
             ELSE <<>>

\* the end of _handle_tm: the Td if there is one, else the Tm itself
tm_result(ins, optimized_op, state) ==
    IF optimized_op # <<>> THEN Handled(optimized_op, state)
    ELSE Handled(<<ins>>, state)

\* variant: a matrix already tracked is kept when the next Tm arrives
tm_tracked_first(ins, state) ==
    IF FloatListError(ins.args) \in CONVERSION_ERRORS
    THEN [state EXCEPT !.current_tm = <<>>, !.has_tm = FALSE]
    ELSE IF state.has_tm THEN state
    ELSE [state EXCEPT !.current_tm = TrackedMatrix(ins.args), !.has_tm = TRUE]

\* "always update state to the new absolute matrix", None if that fails
tm_tracked(ins, state) ==
    IF FloatListError(ins.args) \in CONVERSION_ERRORS
    THEN [state EXCEPT !.current_tm = <<>>, !.has_tm = FALSE]
    ELSE [state EXCEPT !.current_tm = TrackedMatrix(ins.args), !.has_tm = TRUE]

handle_tm(ins, state) ==
    tm_result(ins, try_optimize_tm(ins, state.has_tm, state.current_tm),
              tm_tracked(ins, state))

\* variant: a Td leaves the tracked matrix as it is
handle_td_untracked(ins, state) == Handled(<<ins>>, state)

handle_td(ins, state) ==
    IF ~state.has_tm THEN Handled(<<ins>>, state)
    ELSE IF \/ FloatAtError(ins.args, 1) # "ok"
            \/ FloatAtError(ins.args, 2) # "ok"
            \/ Len(state.current_tm) < 5
         THEN Handled(<<ins>>, [state EXCEPT !.current_tm = <<>>, !.has_tm = FALSE])
    ELSE LET tx == FloatValue(ins.args[1])
             ty == FloatValue(ins.args[2])
             tm == state.current_tm
             tm5 == [tm EXCEPT ![5] = tm[5] + (tx * tm[1]) + (ty * tm[3])]
         IN  IF Len(tm) < 6
             THEN Handled(<<ins>>, [state EXCEPT !.current_tm = <<>>, !.has_tm = FALSE])
             ELSE Handled(<<ins>>,
                          [state EXCEPT !.current_tm =
                              [tm5 EXCEPT ![6] = tm[6] + (tx * tm[2]) + (ty * tm[4])]])

\* variant: BT leaves the tracked matrix as it is
consolidate_step_through_BT(ins, state) ==
    IF ins.op = "Tz" THEN handle_tz(ins, state)
    ELSE IF ins.op = "Tf" THEN handle_tf(ins, state)
    ELSE IF ins.op = "Tm" THEN handle_tm(ins, state)
    ELSE IF ins.op = "Td" THEN handle_td(ins, state)
    ELSE Handled(<<ins>>, state)

\* the dispatch of one instruction in the loop of _consolidate_redundant_ops
consolidate_step(ins, state) ==
    IF ins.op = "Tz" THEN handle_tz(ins, state)
    ELSE IF ins.op = "Tf" THEN handle_tf(ins, state)
    ELSE IF ins.op = "Tm" THEN handle_tm(ins, state)
    ELSE IF ins.op = "Td" THEN handle_td(ins, state)
    ELSE IF ins.op = "BT"
         THEN Handled(<<ins>>, [state EXCEPT !.current_tm = <<>>, !.has_tm = FALSE])
    ELSE Handled(<<ins>>, state)

\* the loop: [ops |-> final_optimized, raised |-> an exception escaped];
\* h is what the dispatch of instruction i gave
RECURSIVE consolidate_loop(_, _, _, _)
RECURSIVE consolidate_append(_, _, _, _)
consolidate_append(ops, i, h, final_optimized) ==
    IF h.raised THEN [ops |-> <<>>, raised |-> TRUE]
    ELSE consolidate_loop(ops, i + 1, h.state, final_optimized \o h.result)

consolidate_loop(ops, i, state, final_optimized) ==
    IF i > Len(ops) THEN [ops |-> final_optimized, raised |-> FALSE]
    ELSE consolidate_append(ops, i, consolidate_step(ops[i], state), final_optimized)

consolidate_redundant_ops(ops) == consolidate_loop(ops, 1, OptimizerState, <<>>)

\* optimization.py:50, the list pass 1 hands to pass 2
ops_pass1(ops) == IF ops = <<>> THEN <<>> ELSE remove_dead_stores(ops)

optimize_ops(ops) ==
    IF ops = <<>> THEN [ops |-> <<>>, raised |-> FALSE]
    ELSE consolidate_redundant_ops(ops_pass1(ops))

----------------------------------------------------------------------------
(* The optimizer as a program: a batch is drawn, optimize_ops is applied to  *)
(* it and then to its own output.                                           *)

\* 6-operand matrices; a, b, c, d, e, f in 1/Unit
Matrix(a, b, c, d, e, f) == <<Num(a), Num(b), Num(c), Num(d), Num(e), Num(f)>>

\* absolute positions a Td can and cannot stand for (linear parts within and
\* beyond TM_TOL of each other), a relative move, the start of a text object
PositionOps ==
    { <<"Tm", Matrix(Unit, 0, 0, Unit, 0, 0)>>,
      <<"Tm", Matrix(Unit + 9, 0, 0, Unit, 1000, 0)>>,
      <<"Tm", Matrix(Unit - 8, 0, 0, Unit, 2000, -2000)>>,
      <<"Td", <<Num(500), Num(0)>> >>,
      <<"BT", <<>> >>,
      <<"Tj", <<Str(1)>> >> }

\* a Tm between the two relative moves, and a Tm whose operands are no numbers
LineOps ==
    { <<"Tm", Matrix(Unit - 8, 0, 0, Unit, 2000, -2000)>>,
      <<"Tm", <<Str(1)>> >>,
      <<"Td", <<Num(500), Num(0)>> >>,
      <<"TD", <<Num(0), Num(-1000)>> >>,
      <<"Tj", <<Str(1)>> >> }

\* scales within and beyond TZ_TOL of each other and of the initial 100,
\* save/restore, a show-text
ScaleOps ==
    { <<"Tz", <<Num(50 * Unit)>> >>,
      <<"Tz", <<Num(50 * Unit + 50)>> >>,
      <<"Tz", <<Num(100 * Unit)>> >>,
      <<"q", <<>> >>,
      <<"Q", <<>> >>,
      <<"Tj", <<Str(1)>> >> }

\* two fonts, two sizes, save/restore, a show-text
FontOps ==
    { <<"Tf", <<Name(1), Num(10 * Unit)>> >>,
      <<"Tf", <<Name(2), Num(10 * Unit)>> >>,
      <<"Tf", <<Name(1), Num(12 * Unit)>> >>,
      <<"q", <<>> >>,
      <<"Q", <<>> >>,
      <<"Tj", <<Str(1)>> >> }

\* operands that fail numeric conversion: missing, non-numeric, too large
\* for a float (the int 2^1024), next to a Tm that can be tracked
MalformedOps ==
    { <<"Tz", <<>> >>,
      <<"Tf", <<Name(1), BigInt(1, FLOAT_MAX_EXP + 1, 0)>> >>,
      <<"Tm", <<Num(Unit), Num(0), Num(0), Num(Unit), BigInt(1, FLOAT_MAX_EXP + 1, 0), Num(0)>> >>,
      <<"Tm", Matrix(Unit, 0, 0, Unit, 0, 0)>>,
      <<"Td", <<Str(1), Str(1)>> >>,
      <<"Tj", <<Str(1)>> >> }

\* a relative move and an absolute position with the operators that consume
\* no text state between them: save and restore, ...
SaveRestoreOps ==
    { <<"Td", <<Num(500), Num(0)>> >>,
      <<"Tm", Matrix(Unit, 0, 0, Unit, 0, 0)>>,
      <<"q", <<>> >>,
      <<"Q", <<>> >> }

\* ... the end of a text object and a change of the graphics matrix
GraphicsOps ==
    { <<"Td", <<Num(500), Num(0)>> >>,
      <<"Tm", Matrix(Unit, 0, 0, Unit, 0, 0)>>,
      <<"ET", <<>> >>,
      <<"cm", Matrix(Unit, 0, 0, Unit, 0, 0)>> }

\* absolute positions whose linear part is a rotation, and one whose a is
\* within TM_TOL of zero
SkewedOps ==
    { <<"Tm", Matrix(0, Unit, 0 - Unit, 0, 0, 0)>>,
      <<"Tm", Matrix(0, Unit, 0 - Unit, 0, 1000, 0)>>,
      <<"Tm", Matrix(5, 0, 0, Unit, 1000, 0)>>,
      <<"Tj", <<Str(1)>> >> }

\* the instruction sets a batch is drawn from
OpFamilies ==
    { PositionOps, LineOps, ScaleOps, FontOps, MalformedOps,
      SaveRestoreOps, GraphicsOps, SkewedOps }

BoundedSeq(S, n) == UNION { [1..k -> S] : k \in 0..n }

\* the batch with each instruction carrying its index as identity
Numbered(s) == [i \in 1..Len(s) |-> Instr(s[i][1], s[i][2], i)]

\* the batches of at most n instructions
Batches(n) ==
    { Numbered(s) : s \in UNION { BoundedSeq(S, n) : S \in OpFamilies } }

\* the editor's variables while the optimizer alone is exercised
\* the api's, the registry's and the normalization's variables while another
\* program is exercised
ApiIdle ==
    /\ api = <<>>
    /\ reg = <<>>
    /\ norm = <<>>
    /\ ts = <<>>

EditorIdle ==
    /\ cfg = [handler_ops |-> {}, optimizer |-> FALSE]
    /\ steps = <<>>
    /\ pc = "idle"
    /\ ed = <<>>

InitOpt ==
    /\ mode = "optimizer"
    /\ batch \in Batches(MaxLen)
    /\ runs = <<>>
    /\ EditorIdle
    /\ ApiIdle

\* what one call of optimize_ops returned or raised, with the list its first
\* pass handed to its second
optimize_ops_run(ops) ==
    [ops |-> optimize_ops(ops).ops,
     raised |-> optimize_ops(ops).raised,
     pass1 |-> ops_pass1(ops)]

\* one call of optimize_ops: on the batch, then on the previous call's output
Optimize ==
    /\ mode = "optimizer"
    /\ Len(runs) < MaxRuns
    /\ runs # <<>> => ~runs[Len(runs)].raised
    /\ runs' = Append(runs, optimize_ops_run(IF runs = <<>> THEN batch ELSE runs[Len(runs)].ops))
    /\ UNCHANGED <<batch, mode, edVars, apiVars>>

NextOpt == Optimize

SpecOpt == InitOpt /\ [][NextOpt]_vars

----------------------------------------------------------------------------
(* editor.py: StreamEditor *)

\* editor.py:304, the safe range of an integer operand is [-2^60, 2^60]
SAFE_INT_EXP == 60

\* arg > 1152921504606846976 or arg < -1152921504606846976, for an int
OutOfSafeRange(arg) ==
    /\ arg.k = "int"
    /\ \/ Abs(arg.v) > SAFE_INT_EXP
       \/ Abs(arg.v) = SAFE_INT_EXP /\ arg.x > 0

\* variant: only integers above the range are refused
is_safe_to_optimize_upper_only(op, operands, intercept_list) ==
    /\ op \in intercept_list
    /\ ~\E i \in 1..Len(operands) : OutOfSafeRange(operands[i]) /\ operands[i].v > 0
    /\ ~\E i \in 1..Len(operands) : operands[i].k = "stream"

\* variant: an embedded stream operand is not looked for
is_safe_to_optimize_no_stream_check(op, operands, intercept_list) ==
    /\ op \in intercept_list
    /\ ~\E i \in 1..Len(operands) : OutOfSafeRange(operands[i])

is_safe_to_optimize(op, operands, intercept_list) ==
    /\ op \in intercept_list
    /\ ~\E i \in 1..Len(operands) : OutOfSafeRange(operands[i])
    /\ ~\E i \in 1..Len(operands) : operands[i].k = "stream"

\* optimization.py:59-71
relevant_operators == {"Tm", "Td", "TD", "q", "Q", "cm", "BT", "ET", "Tf", "Tz"}

\* variant: the optimizer's operators are intercepted without an optimizer
intercept_list_with_relevant(c) == c.handler_ops \cup relevant_operators

\* StreamEditor.__init__: handler_ops, plus relevant_operators with an optimizer
intercept_list(c) ==
    IF c.optimizer THEN c.handler_ops \cup relevant_operators ELSE c.handler_ops

\* A chunk of _final_chunks.  kind: "raw" (a step's raw_bytes), "ser" (the
\* serialization of instructions), "inj" (bytes a handler returned), "sep"
\* (the b"\n" that _append_chunk inserts).  lead/trail: whether its first/last
\* byte is one of the whitespace bytes; empty: b"".
Chunk(kind, step, ops, lead, trail, empty) ==
    [kind |-> kind, step |-> step, ops |-> ops, lead |-> lead, trail |-> trail,
     empty |-> empty]

Separator == Chunk("sep", 0, <<>>, TRUE, TRUE, FALSE)

\* pikepdf.unparse_content_stream(optimized): operands and operators joined by
\* single separators, no whitespace at either end
Serialized(ops) == Chunk("ser", 0, ops, FALSE, FALSE, FALSE)

\* variant: a separator before every chunk but the first
append_chunk_always_separating(chunks, chunk) ==
    IF chunk.empty THEN chunks
    ELSE IF chunks # <<>> THEN Append(Append(chunks, Separator), chunk)
    ELSE Append(chunks, chunk)

append_chunk(chunks, chunk) ==
    IF chunk.empty THEN chunks
    ELSE IF chunks # <<>> /\ ~chunks[Len(chunks)].trail /\ ~chunk.lead
         THEN Append(Append(chunks, Separator), chunk)
    ELSE Append(chunks, chunk)

\* the marker object ORIGINAL_BYTES as an entry of _pending_ops
SentinelEntry == Instr("<ORIGINAL_BYTES>", <<>>, 0)

NotBytesOrSentinel(x) == x.op # "<ORIGINAL_BYTES>"

\* self.optimizer(optimizable), or the list itself without an optimizer
run_optimizer(c, optimizable) ==
    IF c.optimizer THEN optimize_ops(optimizable)
    ELSE [ops |-> optimizable, raised |-> FALSE]

\* an entry (None, Operator(op)): only the tags '^' and '$' are handled with
\* operands None
NullOperands(ins) == ins.op \in {"^", "$"}

\* the rest of _flush_pending once the optimizer has returned (or raised);
\* pikepdf.unparse_content_stream iterates the operands of every instruction,
\* a TypeError when they are None
flush_optimized(e, c, optimizable, optimized) ==
    IF optimized.raised
    THEN [e EXCEPT !.optlog = Append(@, optimizable), !.error = "optimizer"]
    ELSE IF \E i \in 1..Len(optimized.ops) : NullOperands(optimized.ops[i])
    THEN [e EXCEPT !.optlog = IF c.optimizer THEN Append(@, optimizable) ELSE @,
                   !.error = "unparse"]
    ELSE [e EXCEPT !.optlog = IF c.optimizer THEN Append(@, optimizable) ELSE @,
                   !.chunks = IF optimized.ops # <<>>
                              THEN append_chunk(@, Serialized(optimized.ops))
                              ELSE @,
                   !.pending = <<>>]

flush_pending(e, c) ==
    IF e.pending = <<>> THEN e
    ELSE flush_optimized(e, c, SelectSeq(e.pending, NotBytesOrSentinel),
                         run_optimizer(c, SelectSeq(e.pending, NotBytesOrSentinel)))

\* _append_chunk(self._final_chunks, chunk) after a flush that did not raise
emit_chunk(f, chunk) ==
    IF f.error # "" THEN f ELSE [f EXCEPT !.chunks = append_chunk(@, chunk)]

\* A Python value a callback can return.  t is its type; name is the text
\* of a str or an Operator; elems are the elements of a tuple or a list; val
\* holds the operand of a value that is none of these (an int, a float, a
\* pikepdf.String, ...).
PyVal(t, name, elems, val) == [t |-> t, name |-> name, elems |-> elems, val |-> val]

PyNone == PyVal("NoneType", "", <<>>, <<>>)

PyStr(s) == PyVal("str", s, <<>>, <<>>)

PyOperator(s) == PyVal("Operator", s, <<>>, <<>>)

PyBytes == PyVal("bytes", "", <<>>, <<>>)

PyOperand(o) == PyVal("operand", "", <<>>, <<o>>)

PyTuple(elems) == PyVal("tuple", "", elems, <<>>)

PyList(elems) == PyVal("list", "", elems, <<>>)

\* editor.py:73, the one _Sentinel object
ORIGINAL_BYTES == PyVal("_Sentinel", "ORIGINAL_BYTES", <<>>, <<>>)

\* __init__.py:25, UNCHANGED = [ORIGINAL_BYTES]
Unchanged == PyList(<<ORIGINAL_BYTES>>)

\* registry.py:112-129: None gives [], a list stays, a single value is wrapped
normalize_return_value(result) ==
    IF result.t = "NoneType" THEN <<>>
    ELSE IF result.t = "list" THEN result.elems
    ELSE <<result>>

\* what _normalize_instruction returned, or the ValueError and the value its
\* message names
Normalized(value) == [error |-> "", value |-> value]

CouldNotNormalize(item) == [error |-> "ValueError", value |-> item]

\* variant: a tuple that is neither a pair nor a one-string tuple is taken as
\* an instruction without operands
normalize_instruction_tuple_lenient(item) ==
    IF Len(item.elems) = 2
    THEN Normalized(PyTuple(
            << IF item.elems[1].t \in {"list", "tuple", "Array"}
               THEN item.elems[1] ELSE PyList(<<item.elems[1]>>),
               IF item.elems[2].t = "str"
               THEN PyOperator(item.elems[2].name) ELSE item.elems[2] >>))
    ELSE IF Len(item.elems) >= 1 /\ item.elems[1].t = "str"
    THEN Normalized(PyTuple(<<PyList(<<>>), PyOperator(item.elems[1].name)>>))
    ELSE CouldNotNormalize(item)

RECURSIVE normalize_instruction(_)
RECURSIVE normalize_instruction_tuple(_)
normalize_instruction_tuple(item) ==
    IF Len(item.elems) = 2
    THEN Normalized(PyTuple(
            << IF item.elems[1].t \in {"list", "tuple", "Array"}
               THEN item.elems[1] ELSE PyList(<<item.elems[1]>>),
               IF item.elems[2].t = "str"
               THEN PyOperator(item.elems[2].name) ELSE item.elems[2] >>))
    ELSE IF Len(item.elems) = 1 /\ item.elems[1].t = "str"
    THEN normalize_instruction(item.elems[1])
    ELSE CouldNotNormalize(item)

normalize_instruction(item) ==
    IF item.t = "tuple" THEN normalize_instruction_tuple(item)
    ELSE IF item.t = "bytes" THEN Normalized(item)
    ELSE IF item.t = "str" THEN Normalized(PyTuple(<<PyList(<<>>), PyOperator(item.name)>>))
    ELSE IF item.t = "Operator" THEN Normalized(PyTuple(<<PyList(<<>>), item>>))
    ELSE IF item = PyList(<<ORIGINAL_BYTES>>) THEN Normalized(ORIGINAL_BYTES)
    ELSE CouldNotNormalize(item)

\* a normalized value as the entry of _pending_ops it becomes: the marker,
\* or the (operands, operator) pair tagged with the step it was returned for
PendingEntry(value, id) ==
    IF value = ORIGINAL_BYTES THEN SentinelEntry
    ELSE Instr(value.elems[2].name,
               [i \in 1..Len(value.elems[1].elems) |-> value.elems[1].elems[i].val[1]],
               id)

\* variant: bytes a callback returned are appended without the flush
RECURSIVE buffer_items_unflushed(_, _, _, _, _)
buffer_items_unflushed(e, c, items, i, step) ==
    IF i > Len(items) \/ e.error # "" THEN e
    ELSE IF items[i] = ORIGINAL_BYTES
         THEN buffer_items_unflushed(
                  [e EXCEPT !.pending = Append(@, Instr(step.op, step.operands, step.n))],
                  c, items, i + 1, step)
    ELSE IF normalize_instruction(items[i]).error # ""
         THEN [e EXCEPT !.error = "normalize"]
    ELSE IF normalize_instruction(items[i]).value.t = "bytes"
         THEN buffer_items_unflushed(
                  emit_chunk(e, Chunk("inj", step.n, <<>>, FALSE, FALSE, FALSE)),
                  c, items, i + 1, step)
    ELSE buffer_items_unflushed(
             [e EXCEPT !.pending =
                 Append(@, PendingEntry(normalize_instruction(items[i]).value, step.n))],
             c, items, i + 1, step)

\* variant: the original instruction is re-emitted without its operands
original_instruction_without_operands(step) == Instr(step.op, <<>>, step.n)

\* editor.py:326, (operands, Operator(op)) of the step being handled
original_instruction(step) == Instr(step.op, step.operands, step.n)

\* the loop of _buffer_modified_op over the items the handler returned;
\* step is the step being handled (operands <<>> and number 0 for '^' and '$').
\* A normalized value that is not bytes is a pair or the marker, hence truthy.
RECURSIVE buffer_items(_, _, _, _, _)
buffer_items(e, c, items, i, step) ==
    IF i > Len(items) \/ e.error # "" THEN e
    ELSE IF items[i] = ORIGINAL_BYTES
         THEN buffer_items([e EXCEPT !.pending = Append(@, original_instruction(step))],
                           c, items, i + 1, step)
    ELSE IF normalize_instruction(items[i]).error # ""
         THEN [e EXCEPT !.error = "normalize"]
    ELSE IF normalize_instruction(items[i]).value.t = "bytes"
         THEN buffer_items(emit_chunk(flush_pending(e, c),
                                      Chunk("inj", step.n, <<>>, FALSE, FALSE, FALSE)),
                           c, items, i + 1, step)
    ELSE buffer_items([e EXCEPT !.pending =
                          Append(@, PendingEntry(normalize_instruction(items[i]).value,
                                                 step.n))],
                      c, items, i + 1, step)

\* the handler invocation as the log keeps it, with the list the registry
\* made of what the callback returned
Invocation(e, step, ret, pre_input_state, post_input_state) ==
    [op |-> step.op, n |-> step.n, operands |-> step.operands,
     pre_input |-> pre_input_state, post_input |-> post_input_state,
     tracker |-> e.tracker, returned |-> normalize_return_value(ret)]

\* variant: the callback is not invoked for a step that follows an invocation
call_handler_skipping(e, c, step, ret, pre_input_state, post_input_state) ==
    IF e.calls # <<>> /\ e.calls[Len(e.calls)].n = step.n - 1
    THEN [e EXCEPT !.pending = Append(@, Instr(step.op, step.operands, step.n))]
    ELSE buffer_items([e EXCEPT !.calls =
                          Append(@, Invocation(e, step, ret, pre_input_state,
                                               post_input_state))],
                      c, normalize_return_value(ret), 1, step)

\* variant: the pending buffer is flushed before the callback is invoked
call_handler_flushing(e, c, step, ret, pre_input_state, post_input_state) ==
    buffer_items([flush_pending(e, c) EXCEPT !.calls =
                     Append(@, Invocation(e, step, ret, pre_input_state, post_input_state))],
                 c, normalize_return_value(ret), 1, step)

\* _call_handler and _buffer_modified_op: the registry looks the callback up
\* and invokes it once (registry.py:141-145); ret is what the callback returns
call_handler(e, c, step, ret, pre_input_state, post_input_state) ==
    buffer_items([e EXCEPT !.calls =
                     Append(@, Invocation(e, step, ret, pre_input_state, post_input_state))],
                 c, normalize_return_value(ret), 1, step)

\* '^' and '$' are handled with operands None and raw_bytes None
SpecialStep(op) == [op |-> op, operands |-> <<>>, n |-> 0, lead |-> FALSE,
                    trail |-> FALSE, state |-> 0, empty |-> TRUE]

call_special_handler(e, c, op, ret, state) ==
    IF op \in c.handler_ops
    THEN call_handler(e, c, SpecialStep(op), ret, state, state)
    ELSE e

\* a state snapshot is the number of the step it was taken after, 0 for an
\* empty (falsy) one.  _process_step, 1: the tracker takes the pre-input state
track_pre_input(e) ==
    IF e.pre_input_state # 0 THEN [e EXCEPT !.tracker = e.pre_input_state] ELSE e

RawChunk(step) == Chunk("raw", step.n, <<>>, step.lead, step.trail, step.empty)

\* variant: the pending buffer is not flushed before the raw bytes
route_step_unflushed(e, c, step, ret) ==
    IF is_safe_to_optimize(step.op, step.operands, intercept_list(c))
    THEN IF step.op \in c.handler_ops
         THEN call_handler(e, c, step, ret, e.pre_input_state, step.state)
         ELSE [e EXCEPT !.pending = Append(@, Instr(step.op, step.operands, step.n))]
    ELSE emit_chunk(e, RawChunk(step))

\* _process_step, 2: handler, buffer, or flush and raw bytes
route_step(e, c, step, ret) ==
    IF is_safe_to_optimize(step.op, step.operands, intercept_list(c))
    THEN IF step.op \in c.handler_ops
         THEN call_handler(e, c, step, ret, e.pre_input_state, step.state)
         ELSE [e EXCEPT !.pending = Append(@, Instr(step.op, step.operands, step.n))]
    ELSE emit_chunk(flush_pending(e, c), RawChunk(step))

\* variant: an empty snapshot does not replace the one carried so far
advance_input_state_nonempty(e, step) ==
    IF e.error # "" \/ step.state = 0 THEN e ELSE [e EXCEPT !.pre_input_state = step.state]

\* _process_step, 3: the post-input state is the next step's pre-input state
advance_input_state(e, step) ==
    IF e.error # "" THEN e ELSE [e EXCEPT !.pre_input_state = step.state]

process_step(e, c, step, ret) ==
    advance_input_state(route_step(track_pre_input(e), c, step, ret), step)

\* variant: process() ends without the final flush
finish_stream_unflushed(e, c) == e

\* the b"\n" that process() appends to the joined chunks
Newline == Chunk("nl", 0, <<>>, TRUE, TRUE, FALSE)

\* ret = b"".join(self._final_chunks) + b"\n"
join_chunks(f) ==
    IF f.error # "" THEN f ELSE [f EXCEPT !.result = Append(f.chunks, Newline)]

\* the end of process(): the '$' callback, then the final flush and the join
finish_stream(e, c) == IF e.error # "" THEN e ELSE join_chunks(flush_pending(e, c))

----------------------------------------------------------------------------
(* StreamEditor.process as a program: the tokenizer yields one step after    *)
(* the other; every registered callback returns what it likes.               *)

\* what the tokenizer can yield: operator, operands, whether raw_bytes starts
\* or ends with whitespace, whether the state snapshot is non-empty
StepKind(op, operands, lead, trail, snap) ==
    [op |-> op, operands |-> operands, lead |-> lead, trail |-> trail, snap |-> snap,
     empty |-> FALSE]

\* a step without "raw_bytes": step.get("raw_bytes", b"") is empty
NoRawBytes(kind) == [kind EXCEPT !.empty = TRUE, !.lead = FALSE, !.trail = FALSE]

StepKinds ==
    { StepKind("Tz", <<Num(50 * Unit)>>, FALSE, FALSE, TRUE),
      StepKind("Tz", <<Num(100 * Unit)>>, TRUE, FALSE, TRUE),
      StepKind("Tj", <<Str(1)>>, TRUE, FALSE, TRUE),
      StepKind("Tm", <<Num(Unit), Num(0), Num(0), Num(Unit), BigInt(1, 60, 1), Num(0)>>,
               TRUE, FALSE, TRUE),
      StepKind("Tj", <<BigInt(-1, 60, 1)>>, FALSE, FALSE, TRUE),
      StepKind("Tj", <<StreamObj>>, FALSE, TRUE, FALSE) }

\* the n-th step of the stream
Step(kind, n) ==
    [op |-> kind.op, operands |-> kind.operands, n |-> n, lead |-> kind.lead,
     trail |-> kind.trail, state |-> IF kind.snap THEN n ELSE 0,
     empty |-> kind.empty]

\* what a callback can return: None, the empty list, UNCHANGED, a list
\* holding UNCHANGED, an (operands, operator) pair, bytes, an int
HandlerReturns ==
    { PyNone,
      PyList(<<>>),
      Unchanged,
      PyList(<<Unchanged>>),
      PyTuple(<<PyList(<<PyOperand(Str(2))>>), PyStr("Tj")>>),
      PyBytes,
      PyOperand(Num(123)) }

NoReturn == PyNone

\* streams of positioning operators: absolute and relative moves, a
\* show-text, a path operator with and without raw_bytes
StreamStepKinds ==
    { StepKind("Tm", Matrix(Unit, 0, 0, Unit, 0, 0), FALSE, FALSE, TRUE),
      StepKind("Tm", Matrix(Unit, 0, 0, Unit, 1000, 0), TRUE, FALSE, TRUE),
      StepKind("Td", <<Num(500), Num(0)>>, FALSE, TRUE, TRUE),
      StepKind("Tj", <<Str(1)>>, FALSE, FALSE, TRUE),
      StepKind("w", <<Num(Unit)>>, FALSE, TRUE, FALSE),
      NoRawBytes(StepKind("w", <<Num(Unit)>>, FALSE, FALSE, TRUE)) }

PyInstruction(operands, name) ==
    PyTuple(<<PyList([i \in 1..Len(operands) |-> PyOperand(operands[i])]), PyStr(name)>>)

\* what a callback returns on these streams: None, UNCHANGED, or a relative
\* move, bytes and an absolute move
StreamHandlerReturns ==
    { PyNone,
      Unchanged,
      PyList(<<PyInstruction(<<Num(300), Num(0)>>, "Td"),
               PyBytes,
               PyInstruction(Matrix(Unit, 0, 0, Unit, 1000, 0), "Tm")>>) }

\* what the callbacks of '^' and '$' return
SpecialReturns ==
    { NoReturn,
      PyTuple(<<PyList(<<PyOperand(Str(2))>>), PyStr("Tj")>>),
      PyBytes }

\* what the callbacks of '^' and '$' return on these streams
StreamSpecialReturns ==
    { NoReturn, Unchanged, PyInstruction(<<Num(300), Num(0)>>, "Td") }

HandlerOpSets == { {}, {"Tj", "Tm"}, {"^", "$"} }

StreamHandlerOpSets == { {"Td"}, {"Tj"}, {"^", "$"} }

EditorModes == {"editor", "stream"}

\* the steps and the return values of the behaviour's family
StepKindsOf(m) == IF m = "stream" THEN StreamStepKinds ELSE StepKinds

HandlerReturnsOf(m) == IF m = "stream" THEN StreamHandlerReturns ELSE HandlerReturns

SpecialReturnsOf(m) == IF m = "stream" THEN StreamSpecialReturns ELSE SpecialReturns

Configs == [handler_ops : HandlerOpSets, optimizer : BOOLEAN]

Editor0 ==
    [pending |-> <<>>, chunks |-> <<>>, tracker |-> 0, pre_input_state |-> 0,
     calls |-> <<>>, optlog |-> <<>>, error |-> "", result |-> <<>>]

Init ==
    /\ mode = "editor"
    /\ batch = <<>>
    /\ runs = <<>>
    /\ cfg \in Configs
    /\ steps = <<>>
    /\ pc = "start"
    /\ ed = Editor0
    /\ ApiIdle

\* process(): the buffers are reset and the '^' callback, if registered, runs
Begin ==
    /\ mode \in EditorModes
    /\ pc = "start"
    /\ \E ret \in (IF "^" \in cfg.handler_ops THEN SpecialReturnsOf(mode) ELSE {NoReturn}) :
          ed' = call_special_handler(Editor0, cfg, "^", ret, 0)
    /\ pc' = IF ed'.error # "" THEN "failed" ELSE "steps"
    /\ UNCHANGED <<mode, optVars, cfg, steps, apiVars>>

\* the callback of a step returns something only if it is invoked
ReturnsFor(kind) ==
    IF /\ kind.op \in cfg.handler_ops
       /\ is_safe_to_optimize(kind.op, kind.operands, intercept_list(cfg))
    THEN HandlerReturnsOf(mode) ELSE {NoReturn}

\* one turn of the loop over source_iter
ProcessStep ==
    /\ mode \in EditorModes
    /\ pc = "steps"
    /\ Len(steps) < MaxSteps
    /\ \E kind \in StepKindsOf(mode) :
          /\ steps' = Append(steps, Step(kind, Len(steps) + 1))
          /\ \E ret \in ReturnsFor(kind) :
                ed' = process_step(ed, cfg, steps'[Len(steps')], ret)
    /\ pc' = IF ed'.error # "" THEN "failed" ELSE "steps"
    /\ UNCHANGED <<mode, optVars, cfg, apiVars>>

\* source_iter is exhausted: the '$' callback, the final flush, the join
Finish ==
    /\ mode \in EditorModes
    /\ pc = "steps"
    /\ \E ret \in (IF "$" \in cfg.handler_ops THEN SpecialReturnsOf(mode) ELSE {NoReturn}) :
          ed' = finish_stream(call_special_handler(ed, cfg, "$", ret, ed.pre_input_state), cfg)
    /\ pc' = IF ed'.error # "" THEN "failed" ELSE "done"
    /\ UNCHANGED <<mode, optVars, cfg, steps, apiVars>>

Next == Begin \/ ProcessStep \/ Finish

Spec == Init /\ [][Next]_vars

StreamConfigs == [handler_ops : StreamHandlerOpSets, optimizer : BOOLEAN]

\* the editor on the streams of positioning operators
InitStream ==
    /\ mode = "stream"
    /\ batch = <<>>
    /\ runs = <<>>
    /\ cfg \in StreamConfigs
    /\ steps = <<>>
    /\ pc = "start"
    /\ ed = Editor0
    /\ ApiIdle

SpecStream == InitStream /\ [][Next]_vars

----------------------------------------------------------------------------
(* Reading an instruction list back: which instruction of a list stems from  *)
(* which instruction of the batch, and the text state a PDF consumer has     *)
(* when it reaches an instruction.                                           *)

FirstRun == runs[1]

Ran == mode = "optimizer" /\ runs # <<>> /\ ~runs[1].raised

\* the instruction list without the identities
Strip(ops) == [i \in 1..Len(ops) |-> <<ops[i].op, ops[i].args>>]

InOutput(ops, id) == \E n \in 1..Len(ops) : ops[n].id = id

PositionOf(ops, id) == CHOOSE n \in 1..Len(ops) : ops[n].id = id

NoShowTextBetween(ops, i, j) == \A k \in (i + 1)..(j - 1) : ops[k].op \notin ShowTextOps

NoOpBetween(ops, i, j, op) == \A k \in (i + 1)..(j - 1) : ops[k].op # op

\* PDF text state: Tf and Tz set, q saves and Q restores the graphics state
\* (a Q with nothing saved restores nothing); the page starts at scale 100
TextState0 == [tz |-> 100 * Unit, font |-> <<>>, saved |-> <<>>]

RECURSIVE TextStateBefore(_, _)
TextStateBefore(ops, n) ==
    IF n <= 1 THEN TextState0
    ELSE LET s == TextStateBefore(ops, n - 1)
             ins == ops[n - 1]
         IN  IF ins.op = "Tz" /\ FloatAtError(ins.args, 1) = "ok"
             THEN [s EXCEPT !.tz = FloatValue(ins.args[1])]
             ELSE IF ins.op = "Tf" /\ Len(ins.args) >= 2 /\ FloatAtError(ins.args, 2) = "ok"
             THEN [s EXCEPT !.font = <<ins.args[1], FloatValue(ins.args[2])>>]
             ELSE IF ins.op = "q"
             THEN [s EXCEPT !.saved = Append(s.saved, <<s.tz, s.font>>)]
             ELSE IF ins.op = "Q" /\ s.saved # <<>>
             THEN [tz |-> s.saved[Len(s.saved)][1],
                   font |-> s.saved[Len(s.saved)][2],
                   saved |-> SubSeq(s.saved, 1, Len(s.saved) - 1)]
             ELSE s

SameFont(f, g) ==
    \/ f = <<>> /\ g = <<>>
    \/ f # <<>> /\ g # <<>> /\ f[1] = g[1] /\ Abs(f[2] - g[2]) < TF_TOL

\* PDF text-line matrix: Tm sets it, Td and TD translate it, BT resets it;
\* a, b, c, d in 1/Unit and e, f in 1/(Unit*Unit)
LineMatrix0 == <<Unit, 0, 0, Unit, 0, 0>>

WellFormedMatrix(args) == Len(args) = 6 /\ FloatListError(args) = "ok"

RECURSIVE LineMatrixBefore(_, _)
LineMatrixBefore(ops, n) ==
    IF n <= 1 THEN LineMatrix0
    ELSE LET m == LineMatrixBefore(ops, n - 1)
             ins == ops[n - 1]
         IN  IF ins.op = "Tm" /\ WellFormedMatrix(ins.args)
             THEN TrackedMatrix(ins.args)
             ELSE IF ins.op \in {"Td", "TD"} /\ Len(ins.args) = 2 /\ FloatListError(ins.args) = "ok"
             THEN LET tx == FloatValue(ins.args[1])
                      ty == FloatValue(ins.args[2])
                  IN  <<m[1], m[2], m[3], m[4],
                        m[5] + tx * m[1] + ty * m[3],
                        m[6] + tx * m[2] + ty * m[4]>>
             ELSE IF ins.op = "BT" THEN LineMatrix0
             ELSE m

\* every Tm has six numeric operands, every Td and TD two
WellFormedPositions(ops) ==
    \A n \in 1..Len(ops) :
        /\ ops[n].op = "Tm" => WellFormedMatrix(ops[n].args)
        /\ ops[n].op \in {"Td", "TD"} =>
              ( Len(ops[n].args) = 2 /\ FloatListError(ops[n].args) = "ok" )

\* the line origins agree up to one step of the 4-decimal rounding of a Td
\* offset, carried through the linear part
SameOrigin(m, n) ==
    /\ Abs(m[5] - n[5]) <= RoundUnit * (Abs(m[1]) + Abs(m[3]))
    /\ Abs(m[6] - n[6]) <= RoundUnit * (Abs(m[2]) + Abs(m[4]))

----------------------------------------------------------------------------
(* Claims about optimize_ops *)

\* C1: when two Tm occur in the batch with no show-text instruction between
\* them, the earlier one is absent from the output of optimize_ops, whatever
\* the operands; a batch of exactly two Tm yields exactly the second Tm.
C1_DeadStoreTm ==
    Ran =>
        /\ \A i, j \in 1..Len(batch) :
              ( /\ i < j
                /\ batch[i].op = "Tm"
                /\ batch[j].op = "Tm"
                /\ NoShowTextBetween(batch, i, j) )
              => ~InOutput(FirstRun.ops, i)
        /\ ( Len(batch) = 2 /\ batch[1].op = "Tm" /\ batch[2].op = "Tm" )
              => FirstRun.ops = <<batch[2]>>

\* a batch of exactly two Tm with different operands was optimized
C1_Witness ==
    /\ Ran
    /\ Len(batch) = 2
    /\ batch[1].op = "Tm" /\ batch[2].op = "Tm"
    /\ batch[1].args # batch[2].args
    /\ FirstRun.ops = <<batch[2]>>

CloseTz(i, j) ==
    /\ i < j
    /\ batch[i].op = "Tz" /\ batch[j].op = "Tz"
    /\ FloatAtError(batch[i].args, 1) = "ok"
    /\ FloatAtError(batch[j].args, 1) = "ok"
    /\ Abs(FloatValue(batch[i].args[1]) - FloatValue(batch[j].args[1])) < TZ_TOL

\* C2 as stated: two Tz whose values differ by less than 0.001, with no
\* show-text instruction between them: the first is kept, the second dropped.
C2_Original ==
    Ran =>
        \A i, j \in 1..Len(batch) :
            ( CloseTz(i, j) /\ NoShowTextBetween(batch, i, j) )
            => ( InOutput(FirstRun.ops, i) /\ ~InOutput(FirstRun.ops, j) )

\* C2 amended: two Tz whose values differ by less than 0.001: with no
\* show-text instruction between them the first is dropped; when only
\* show-text instructions and no other Tz separate them and the first is in
\* the output, the second is dropped.
C2_Amended ==
    Ran =>
        \A i, j \in 1..Len(batch) :
            CloseTz(i, j) =>
                /\ NoShowTextBetween(batch, i, j) => ~InOutput(FirstRun.ops, i)
                /\ ( /\ ~NoShowTextBetween(batch, i, j)
                     /\ NoOpBetween(batch, i, j, "Tz")
                     /\ InOutput(FirstRun.ops, i) )
                   => ~InOutput(FirstRun.ops, j)

\* both cases of the amended claim happened: a close pair with nothing
\* between (the second survives), and one separated by a show-text (the first
\* survives)
C2_Witness ==
    /\ Ran
    /\ \E i, j \in 1..Len(batch) :
          /\ CloseTz(i, j) /\ batch[i].args # batch[j].args
          /\ NoShowTextBetween(batch, i, j)
          /\ InOutput(FirstRun.ops, j)
          /\ \E k, l \in 1..Len(batch) :
                /\ j <= k /\ CloseTz(k, l) /\ ~NoShowTextBetween(batch, k, l)
                /\ InOutput(FirstRun.ops, k) /\ ~InOutput(FirstRun.ops, l)

\* C3: optimize_ops applied to its own output returns that output.
C3_Idempotent ==
    ( mode = "optimizer" /\ Len(runs) >= 2 /\ ~runs[1].raised )
    => ( ~runs[2].raised /\ Strip(runs[2].ops) = Strip(runs[1].ops) )

\* C7: at every show-text instruction of the output, font and horizontal
\* scale in effect are those in effect at that instruction in the batch (up
\* to the tolerances within which the optimizer treats two values as one).
C7_TextStateEquivalent ==
    Ran =>
        \A n \in 1..Len(FirstRun.ops) :
            FirstRun.ops[n].op \in ShowTextOps =>
                LET sin == TextStateBefore(batch, FirstRun.ops[n].id)
                    sout == TextStateBefore(FirstRun.ops, n)
                IN  /\ Abs(sin.tz - sout.tz) < TZ_TOL
                    /\ SameFont(sin.font, sout.font)

\* C8: at every show-text instruction of the output, the text-line origin in
\* effect is the one in effect at that instruction in the batch, up to the
\* rounding of emitted Td offsets (stated for batches whose Tm, Td and TD have
\* well-formed numeric operands).
C8_TextPositionEquivalent ==
    ( Ran /\ WellFormedPositions(batch) ) =>
        \A n \in 1..Len(FirstRun.ops) :
            FirstRun.ops[n].op \in ShowTextOps =>
                SameOrigin(LineMatrixBefore(batch, FirstRun.ops[n].id),
                           LineMatrixBefore(FirstRun.ops, n))

----------------------------------------------------------------------------
(* Reading _final_chunks back: which chunk stems from which step.            *)

HasOutOfRangeInt(step) ==
    \E i \in 1..Len(step.operands) : OutOfSafeRange(step.operands[i])

HasStreamOperand(step) ==
    \E i \in 1..Len(step.operands) : step.operands[i].k = "stream"

\* step n has been processed and _process_step returned (an exception ends
\* process() without output)
Processed(n) == n \in 1..Len(steps) /\ ~(pc = "failed" /\ n = Len(steps))

HasInstrOf(ops, n) == \E i \in 1..Len(ops) : ops[i].id = n

\* the steps a chunk stems from
StepsOfChunk(chunk) ==
    IF chunk.kind \in {"raw", "inj"} THEN {chunk.step}
    ELSE {chunk.ops[i].id : i \in 1..Len(chunk.ops)}

RawChunksOf(n) ==
    {i \in 1..Len(ed.chunks) : ed.chunks[i].kind = "raw" /\ ed.chunks[i].step = n}

\* the output holds the raw_bytes of step n once and nothing else for it
EmittedVerbatim(n) ==
    /\ Cardinality(RawChunksOf(n)) = 1
    /\ ~HasInstrOf(ed.pending, n)
    /\ \A i \in 1..Len(ed.chunks) :
          ed.chunks[i].kind # "raw" => n \notin StepsOfChunk(ed.chunks[i])

\* the raw_bytes of step n stand after everything of earlier steps and
\* before everything of later steps
InOriginalPosition(n) ==
    \A i \in RawChunksOf(n) : \A j \in 1..Len(ed.chunks) :
       \A m \in StepsOfChunk(ed.chunks[j]) \cap (1..Len(steps)) :
          /\ m < n => j < i
          /\ m > n => j > i

\* C4: every processed step that has an integer operand above 2^60 or below
\* -2^60 is emitted as exactly its raw_bytes, whatever the configuration:
\* one raw chunk for it, no instruction of it buffered or serialized
C4_RoundTripSafety ==
    \A n \in 1..Len(steps) :
       Processed(n) /\ HasOutOfRangeInt(steps[n]) => EmittedVerbatim(n)

\* an optimizer is configured; a step below the range with a registered
\* operator and a step above it with a registered, optimizer-relevant
\* operator have both been emitted
C4_Witness ==
    /\ pc = "done" /\ cfg.optimizer
    /\ \E n \in 1..Len(steps) :
          /\ steps[n].op = "Tj" /\ "Tj" \in cfg.handler_ops
          /\ HasOutOfRangeInt(steps[n]) /\ RawChunksOf(n) # {}
    /\ \E n \in 1..Len(steps) :
          /\ steps[n].op = "Tm" /\ "Tm" \in cfg.handler_ops
          /\ HasOutOfRangeInt(steps[n]) /\ RawChunksOf(n) # {}

\* C5: no callback invocation is for, and no batch handed to the optimizer
\* contains, a step with an out-of-range integer operand or a stream operand
C5_NeverRouted ==
    \A n \in 1..Len(steps) :
       HasOutOfRangeInt(steps[n]) \/ HasStreamOperand(steps[n]) =>
          /\ \A i \in 1..Len(ed.calls) : ed.calls[i].n # n
          /\ \A b \in 1..Len(ed.optlog) : ~HasInstrOf(ed.optlog[b], n)

\* the callback and the optimizer have both run, and the stream held a step
\* with a stream operand and one with an out-of-range integer, both with a
\* registered operator
C5_Witness ==
    /\ pc = "done" /\ ed.calls # <<>> /\ ed.optlog # <<>>
    /\ \E n \in 1..Len(steps) :
          steps[n].op \in cfg.handler_ops /\ HasStreamOperand(steps[n])
    /\ \E n \in 1..Len(steps) :
          steps[n].op \in cfg.handler_ops /\ HasOutOfRangeInt(steps[n])

\* neither registered nor (with an optimizer) optimizer-relevant
PassThrough(step) ==
    /\ step.op \notin cfg.handler_ops
    /\ cfg.optimizer => step.op \notin relevant_operators

\* C6: a processed step whose operator is not registered and not relevant to
\* a configured optimizer is emitted as exactly its raw_bytes, after all
\* output of earlier steps and before all output of later steps
C6_PassThroughDefault ==
    \A n \in 1..Len(steps) :
       Processed(n) /\ PassThrough(steps[n]) =>
          EmittedVerbatim(n) /\ InOriginalPosition(n)

\* a pass-through step stands between the serialized output of an earlier
\* step and the output of a later one
C6_Witness ==
    /\ pc = "done"
    /\ \E n \in 1..Len(steps) :
          /\ PassThrough(steps[n]) /\ ~HasOutOfRangeInt(steps[n])
          /\ ~HasStreamOperand(steps[n])
          /\ \E i \in RawChunksOf(n) :
                /\ \E j \in 1..(i - 1) :
                      /\ ed.chunks[j].kind = "ser"
                      /\ \E m \in StepsOfChunk(ed.chunks[j]) : m >= 1 /\ m < n
                /\ \E j \in (i + 1)..Len(ed.chunks) :
                      \E m \in StepsOfChunk(ed.chunks[j]) : m > n

\* the horizontal scale a consumer has before step n of the input
RECURSIVE InputScaleBefore(_)
InputScaleBefore(n) ==
    IF n <= 1 THEN 100 * Unit
    ELSE IF steps[n - 1].op = "Tz" THEN steps[n - 1].operands[1].v
    ELSE InputScaleBefore(n - 1)

\* the scale after the instructions ops[1..k], coming from scale
RECURSIVE ScaleAfter(_, _, _)
ScaleAfter(ops, k, scale) ==
    IF k = 0 THEN scale
    ELSE IF ops[k].op = "Tz" THEN ops[k].args[1].v
    ELSE ScaleAfter(ops, k - 1, scale)

\* the horizontal scale a consumer has before chunk i of the output
RECURSIVE OutputScaleBefore(_)
OutputScaleBefore(i) ==
    IF i <= 1 THEN 100 * Unit
    ELSE IF ed.chunks[i - 1].kind = "ser"
         THEN ScaleAfter(ed.chunks[i - 1].ops, Len(ed.chunks[i - 1].ops),
                         OutputScaleBefore(i - 1))
    ELSE IF ed.chunks[i - 1].kind = "raw" /\ steps[ed.chunks[i - 1].step].op = "Tz"
         THEN steps[ed.chunks[i - 1].step].operands[1].v
    ELSE OutputScaleBefore(i - 1)

\* C9: with an optimizer and no handlers, the horizontal scale in effect at
\* every show-text instruction of the output is the one in effect at it in
\* the input
C9_FlushKeepsScale ==
    pc = "done" /\ cfg.optimizer /\ cfg.handler_ops = {} =>
       \A n \in 1..Len(steps) : \A i \in RawChunksOf(n) :
          steps[n].op \in ShowTextOps =>
             OutputScaleBefore(i) = InputScaleBefore(n)

\* the steps the callback has to be invoked for
MustInvoke(step) ==
    /\ step.op \in cfg.handler_ops
    /\ ~HasOutOfRangeInt(step)
    /\ ~HasStreamOperand(step)

IsStepCall(call) == call.n # 0

StepInvocations == SelectSeq(ed.calls, IsStepCall)

\* C10: the callback invocations for steps are, in this order and each once,
\* the steps with a registered operator and safe operands; a step with an
\* unregistered operator has none
C10_InvocationOrder ==
    /\ Len(StepInvocations) = Len(SelectSeq(steps, MustInvoke))
    /\ \A i \in 1..Len(StepInvocations) :
          /\ StepInvocations[i].n = SelectSeq(steps, MustInvoke)[i].n
          /\ StepInvocations[i].op = SelectSeq(steps, MustInvoke)[i].op

\* two invocations with a step of an unregistered operator between them, and
\* a step with a registered operator and unsafe operands
C10_Witness ==
    /\ pc = "done"
    /\ \E i \in 1..(Len(StepInvocations) - 1) :
          /\ StepInvocations[i + 1].n > StepInvocations[i].n + 1
          /\ \A m \in (StepInvocations[i].n + 1)..(StepInvocations[i + 1].n - 1) :
                steps[m].op \notin cfg.handler_ops
    /\ \E n \in 1..Len(steps) :
          steps[n].op \in cfg.handler_ops /\ ~MustInvoke(steps[n])

----------------------------------------------------------------------------
(* Claims about conversion failures in optimize_ops *)

\* C12: whatever the operands of Tz, Tf, Tm and Td are, optimize_ops returns
\* a list: no exception escapes it
C12_NeverRaises ==
    ( mode = "optimizer" /\ runs # <<>> ) => ~runs[1].raised

----------------------------------------------------------------------------
(* Claims about the synthetic tags '^' and '$' *)

CallsOf(op) == {i \in 1..Len(ed.calls) : ed.calls[i].op = op}

\* everything emitted or buffered for emission so far, as the steps it stems
\* from, in order (0 for what a '^' or '$' callback returned)
RECURSIVE OriginsFrom(_)
OriginsFrom(i) ==
    IF i > Len(ed.chunks)
    THEN [k \in 1..Len(SelectSeq(ed.pending, NotBytesOrSentinel)) |->
             SelectSeq(ed.pending, NotBytesOrSentinel)[k].id]
    ELSE IF ed.chunks[i].kind = "sep" THEN OriginsFrom(i + 1)
    ELSE IF ed.chunks[i].kind = "ser"
         THEN [k \in 1..Len(ed.chunks[i].ops) |-> ed.chunks[i].ops[k].id]
              \o OriginsFrom(i + 1)
    ELSE <<ed.chunks[i].step>> \o OriginsFrom(i + 1)

Origins == OriginsFrom(1)

\* what the synthetic callbacks returned stands before everything of the
\* steps, or (once '$' was invoked) after everything of the steps
SyntheticOutside(o) ==
    \A i \in 1..Len(o) : o[i] = 0 =>
       \/ \A j \in 1..(i - 1) : o[j] = 0
       \/ CallsOf("$") # {} /\ \A j \in (i + 1)..Len(o) : o[j] = 0

\* C11: a registered '^' is invoked once, first, with null operands (<<>>),
\* and a registered '$' once, last, with null operands, when the steps are
\* exhausted; what they return is emitted before, resp. after, everything of
\* the steps, the final flush included; an unregistered tag is never invoked
C11_SyntheticTags ==
    /\ Cardinality(CallsOf("^")) = (IF "^" \in cfg.handler_ops /\ pc # "start" THEN 1 ELSE 0)
    /\ Cardinality(CallsOf("$")) = (IF "$" \in cfg.handler_ops /\ pc = "done" THEN 1 ELSE 0)
    /\ \A i \in CallsOf("^") : i = 1 /\ ed.calls[i].operands = <<>>
    /\ \A i \in CallsOf("$") : i = Len(ed.calls) /\ ed.calls[i].operands = <<>>
    /\ SyntheticOutside(Origins)
    /\ pc = "done" => ed.pending = <<>>

\* both tags are registered, both callbacks returned something, and steps
\* were emitted between
C11_Witness ==
    /\ pc = "done" /\ cfg.optimizer
    /\ CallsOf("^") # {} /\ CallsOf("$") # {}
    /\ Len(Origins) >= 4
    /\ Origins[1] = 0 /\ Origins[Len(Origins)] = 0
    /\ \E i \in 2..(Len(Origins) - 1) : Origins[i] # 0

(***************************************************************************)
(* api.py: the document                                                    *)
(*                                                                         *)
(* A document is its pages (numbered from 0, as pdf.pages is), the         *)
(* XObjects its resource dictionaries name, and for every page and form    *)
(* the set of XObjects listed under /Resources /XObject.  A form whose     *)
(* stream data cannot be decoded makes read_bytes raise pikepdf.PdfError.  *)
(***************************************************************************)
MaxPages == 2       \* pages of the document
MaxCalls == 2       \* top-level calls made on the document
MaxDepth == 6       \* nested calls the interpreter allows to the conversion

PageIds == 0 .. (MaxPages - 1)

FormA == 11
FormB == 12
ImageC == 13
Forms == {FormA, FormB}
XObjects == Forms \cup {ImageC}

Subtype(x) == IF x \in Forms THEN "/Form" ELSE "/Image"

\* every page has a content stream; page 0 may name any XObject, a later
\* page at most the first form; the two forms may name each other; only the
\* first form may hold undecodable data.  faulty are the containers whose
\* content makes a registered callback return a value that
\* _normalize_instruction refuses.
Documents ==
    { [ res |-> pr @@ (FormA :> ra) @@ (FormB :> rb) @@ (ImageC :> {}),
        readable |-> (FormA :> okA) @@ (FormB :> TRUE),
        faulty |-> {} ] :
        pr \in { f \in [PageIds -> SUBSET XObjects] :
                   \A p \in PageIds : p > 0 => f[p] \subseteq {FormA} },
        ra \in { {}, {FormB} },
        rb \in { {}, {FormA} },
        okA \in BOOLEAN }

\* acyclic, readable documents in which one page or one form is faulty
FaultyDocuments ==
    { [ res |-> pr @@ (FormA :> ra) @@ (FormB :> {}) @@ (ImageC :> {}),
        readable |-> (FormA :> TRUE) @@ (FormB :> TRUE),
        faulty |-> {k} ] :
        pr \in { f \in [PageIds -> SUBSET XObjects] :
                   \A p \in PageIds : p > 0 => f[p] \subseteq {FormA} },
        ra \in { {}, {FormB} },
        k \in PageIds \cup Forms }

(***************************************************************************)
(* api.py: what one top-level call does                                    *)
(*                                                                         *)
(* A walk is the state a call threads through its helpers: the visited set *)
(* of the options object in use, the containers whose content the editor   *)
(* rewrote (in order), and the exception in flight.                        *)
(***************************************************************************)
Walk(visited, processed, error) ==
    [ visited |-> visited, processed |-> processed, error |-> error ]

\* _convert_to_pdfminer_resources descends from a resource dictionary into
\* every stream it names and on into that stream's own /Resources, with no
\* record of what it has already converted; the interpreter ends a descent
\* that nests too deep with RecursionError (FALSE)
RECURSIVE convert_to_pdfminer_resources(_, _, _)
convert_to_pdfminer_resources(d, refs, depth) ==
    IF depth = 0 THEN FALSE
    ELSE \A x \in refs : convert_to_pdfminer_resources(d, d.res[x], depth - 1)

\* _modify_content_container: convert the resources, read the content, run
\* the editor (whose ValueError for a value it cannot normalize is not
\* caught here), write the result back
modify_content_container(d, c, w) ==
    IF ~convert_to_pdfminer_resources(d, d.res[c], MaxDepth)
    THEN [w EXCEPT !.error = "RecursionError"]
    ELSE IF c \in Forms /\ ~d.readable[c]
    THEN [w EXCEPT !.error = "PdfError"]
    ELSE IF c \in d.faulty
    THEN [w EXCEPT !.error = "ValueError"]
    ELSE [w EXCEPT !.processed = Append(@, c)]

\* the first entry of an /XObject dictionary not yet iterated over
FirstRef(refs) == CHOOSE x \in refs : \A y \in refs : x <= y

RECURSIVE process_child_resources(_, _, _)
\* variant: the except clause catches every exception of the form
recurse_into_form_catching_all(d, x, w) ==
    IF w.error # "none" THEN [w EXCEPT !.error = "none"]
    ELSE process_child_resources(d, d.res[x], w)

\* variant: no except clause
recurse_into_form_uncaught(d, x, w) ==
    IF w.error # "none" THEN w
    ELSE process_child_resources(d, d.res[x], w)

\* the body of the try statement once the form's own content is done: an
\* error of the form's content or of its children ends it, and PdfError is
\* caught
recurse_into_form(d, x, w) ==
    IF w.error = "PdfError" THEN [w EXCEPT !.error = "none"]
    ELSE IF w.error # "none" THEN w
    ELSE process_child_resources(d, d.res[x], w)

\* one entry of the /XObject dictionary
visit_xobject(d, x, w) ==
    IF x \in w.visited THEN w
    ELSE IF Subtype(x) # "/Form" THEN [w EXCEPT !.visited = @ \cup {x}]
    ELSE recurse_into_form(d, x,
             modify_content_container(d, x, [w EXCEPT !.visited = @ \cup {x}]))

process_child_resources(d, refs, w) ==
    IF refs = {} \/ w.error # "none" THEN w
    ELSE process_child_resources(d, refs \ {FirstRef(refs)},
                                 visit_xobject(d, FirstRef(refs), w))

\* modify_page after the page's own content is done
recurse_from_page(d, p, recurse, w) ==
    IF w.error # "none" \/ ~recurse THEN w
    ELSE process_child_resources(d, d.res[p], w)

\* a variant of modify_page that descends into the forms whatever
\* recurse_xobjects says
modify_page_always_recursing(d, p, opts, w) ==
    recurse_from_page(d, p, TRUE,
        modify_content_container(d, p,
            IF opts = <<>> THEN [w EXCEPT !.visited = {}] ELSE w))

\* modify_page; opts is <<>> for options=None, and then a new
\* ProcessingOptions (recursion on, nothing visited) serves this page only
modify_page(d, p, opts, w) ==
    recurse_from_page(d, p, IF opts = <<>> THEN TRUE ELSE opts[1].recurse,
        modify_content_container(d, p,
            IF opts = <<>> THEN [w EXCEPT !.visited = {}] ELSE w))

(***************************************************************************)
(* api.py: the arguments of process                                        *)
(***************************************************************************)
None == [ t |-> "None", i |-> 0, items |-> <<>> ]
IntArg(i) == [ t |-> "int", i |-> i, items |-> <<>> ]
PageArg(p) == [ t |-> "Page", i |-> p, items |-> <<>> ]
StrArg(n) == [ t |-> "str", i |-> n, items |-> <<>> ]       \* a string of n characters
ListArg(items) == [ t |-> "list", i |-> 0, items |-> items ]

\* Python's truth value, which `pages or page` tests
Truthy(v) ==
    CASE v.t = "None" -> FALSE
      [] v.t = "int"  -> v.i # 0
      [] v.t = "str"  -> v.i # 0
      [] v.t = "list" -> v.items # <<>>
      [] OTHER        -> TRUE

PagesOrPage(pages, page) == IF Truthy(pages) THEN pages ELSE page

Resolved(sel, error) == [ sel |-> sel, error |-> error ]

RECURSIVE resolve_items(_, _, _)
resolve_items(items, i, resolved) ==
    IF i > Len(items) THEN Resolved(resolved, "none")
    ELSE IF items[i].t = "int"
    THEN IF items[i].i \in PageIds
         THEN resolve_items(items, i + 1, Append(resolved, items[i].i))
         ELSE Resolved(<<>>, "IndexError")
    ELSE IF items[i].t = "Page"
    THEN resolve_items(items, i + 1, Append(resolved, items[i].i))
    ELSE Resolved(<<>>, "TypeError")

AllPages == [ i \in 1 .. MaxPages |-> i - 1 ]

resolve_pages(pages_arg) ==
    CASE pages_arg.t = "None" -> Resolved(AllPages, "none")
      [] pages_arg.t = "int"  ->
            IF pages_arg.i \in PageIds THEN Resolved(<<pages_arg.i>>, "none")
            ELSE Resolved(<<>>, "IndexError")
      [] pages_arg.t = "Page" -> Resolved(<<pages_arg.i>>, "none")
      [] pages_arg.t = "list" -> resolve_items(pages_arg.items, 1, <<>>)
      [] OTHER                -> Resolved(<<>>, "TypeError")

\* the loop of process over the pages to process
RECURSIVE process_pages(_, _, _, _, _)
process_pages(d, sel, i, opts, w) ==
    IF i > Len(sel) \/ w.error # "none" THEN w
    ELSE process_pages(d, sel, i + 1, opts, modify_page(d, sel[i], opts, w))

\* process after _resolve_pages
process_resolved(d, r, opts, w) ==
    IF r.error # "none" THEN [w EXCEPT !.error = r.error]
    ELSE process_pages(d, r.sel, 1, opts, w)

process(d, pdf_ok, pages, page, opts, w) ==
    IF ~pdf_ok THEN [w EXCEPT !.error = "TypeError"]
    ELSE process_resolved(d, resolve_pages(PagesOrPage(pages, page)), opts, w)

(***************************************************************************)
(* The program exercising api.py: a caller holds one document and one      *)
(* ProcessingOptions object and makes top-level calls, passing the object  *)
(* or None.                                                                *)
(***************************************************************************)
PagesArgs ==
    { None, StrArg(0), StrArg(1), PageArg(MaxPages - 1),
      ListArg(<<>>),
      ListArg(<<IntArg(1), PageArg(0)>>),
      ListArg(<<IntArg(0), StrArg(1)>>) }
    \cup { IntArg(i) : i \in PageIds }

PageArgs == { None, IntArg(1) }

\* what process is called with: a pikepdf.Pdf and any selection, or something
\* that is not a pikepdf.Pdf
ProcessArgs ==
    { [ pdf_ok |-> TRUE, pages |-> pages, page |-> page ] :
        pages \in PagesArgs, page \in PageArgs }
    \cup { [ pdf_ok |-> FALSE, pages |-> pages, page |-> None ] :
             pages \in { None, IntArg(0) } }

\* the record of one top-level call: its arguments, the visited set its
\* options object held when it began, and the walk it ended with
Call(name, pdf_ok, pages, page, given, visited0, w) ==
    [ name |-> name, pdf_ok |-> pdf_ok, pages |-> pages, page |-> page,
      given |-> given, visited0 |-> visited0,
      processed |-> w.processed, error |-> w.error ]

NoCall == Call("none", TRUE, None, None, FALSE, {}, Walk({}, <<>>, "none"))

Walk0 == Walk(api.options.visited, <<>>, "none")

OptionsArg(given) == IF given THEN <<api.options>> ELSE <<>>

\* the visited set the caller's options object holds after the call
VisitedAfter(given, w) == IF given THEN w.visited ELSE api.options.visited

Finished(name, pdf_ok, pages, page, given, w) ==
    api' = [ api EXCEPT !.ncalls = @ + 1,
                        !.options.visited = VisitedAfter(given, w),
                        !.last = Call(name, pdf_ok, pages, page, given,
                                      api.options.visited, w) ]

OthersIdle ==
    /\ batch = <<>>
    /\ runs = <<>>
    /\ EditorIdle
    /\ reg = <<>>
    /\ norm = <<>>
    /\ ts = <<>>

InitApi ==
    /\ mode = "api"
    /\ OthersIdle
    /\ \E d \in Documents, recurse \in BOOLEAN :
          api = [ doc |-> d,
                  options |-> [ recurse |-> recurse, visited |-> {} ],
                  ncalls |-> 0,
                  last |-> NoCall ]

Process ==
    /\ mode = "api"
    /\ api.ncalls < MaxCalls
    /\ \E a \in ProcessArgs, given \in BOOLEAN :
          Finished("process", a.pdf_ok, a.pages, a.page, given,
                   process(api.doc, a.pdf_ok, a.pages, a.page,
                           OptionsArg(given), Walk0))
    /\ UNCHANGED <<mode, optVars, edVars, reg, norm, ts>>

ModifyPage ==
    /\ mode = "api"
    /\ api.ncalls < MaxCalls
    /\ \E p \in PageIds, given \in BOOLEAN :
          Finished("modify_page", TRUE, PageArg(p), None, given,
                   modify_page(api.doc, p, OptionsArg(given), Walk0))
    /\ UNCHANGED <<mode, optVars, edVars, reg, norm, ts>>

NextApi == Process \/ ModifyPage

SpecApi == InitApi /\ [][NextApi]_vars

\* the same caller with a document one of whose containers is faulty
InitApiFaulty ==
    /\ mode = "api"
    /\ OthersIdle
    /\ \E d \in FaultyDocuments, recurse \in BOOLEAN :
          api = [ doc |-> d,
                  options |-> [ recurse |-> recurse, visited |-> {} ],
                  ncalls |-> 0,
                  last |-> NoCall ]

SpecApiFaulty == InitApiFaulty /\ [][NextApi]_vars

(***************************************************************************)
(* Reading a top-level call back                                           *)
(***************************************************************************)
\* how often the last call rewrote the content of container c
TimesProcessed(c) ==
    Cardinality({ i \in 1 .. Len(api.last.processed) : api.last.processed[i] = c })

\* recurse_xobjects as the last call saw it
RecursionEnabled == ~api.last.given \/ api.options.recurse

\* the XObjects a chain of resource dictionaries leads to from the given ones
RECURSIVE ReachableFrom(_, _)
ReachableFrom(refs, n) ==
    IF n = 0 THEN refs
    ELSE ReachableFrom(refs \cup UNION { api.doc.res[x] : x \in refs }, n - 1)

Reachable(refs) == ReachableFrom(refs, Cardinality(XObjects))

(***************************************************************************)
(* Claims about the walk over embedded forms                               *)
(***************************************************************************)
\* C13: a modify_page call with recursion enabled returns normally whatever
\* the resource graph is, cyclic ones included, and rewrites no form twice
C13_CycleSafeWalk ==
    ( mode = "api" /\ api.last.name = "modify_page" /\ RecursionEnabled )
        => ( /\ api.last.error = "none"
             /\ \A x \in Forms : TimesProcessed(x) <= 1 )

\* C14: one process call rewrites no form twice, however many of the
\* selected pages name it, with an options object and with options=None
C14_OncePerCall ==
    ( mode = "api" /\ api.last.name = "process" )
        => \A x \in Forms : TimesProcessed(x) <= 1

\* the forms the resources of the pages the last call worked on name directly
NamedByProcessedPages ==
    UNION { api.doc.res[p] \cap Forms :
              p \in { c \in PageIds : TimesProcessed(c) > 0 } }

\* C15: a call that follows a finished one, given the same options object or
\* not, rewrites every decodable form its pages name; none is skipped for
\* having been visited by the earlier call
C15_VisitedNotReused ==
    ( mode = "api" /\ api.last.name # "none" /\ api.last.error = "none"
      /\ RecursionEnabled )
        => \A x \in NamedByProcessedPages :
              api.doc.readable[x] => TimesProcessed(x) > 0

\* the last call was given the options object with recurse_xobjects=False
RecursionDisabled == api.last.given /\ ~api.options.recurse

\* C16: with recurse_xobjects=False a call rewrites page content only: no
\* form is run through the editor or written to, and modify_page rewrites
\* just its page
C16_RecursionDisabled ==
    ( mode = "api" /\ api.last.name # "none" /\ RecursionDisabled )
        => ( /\ \A x \in XObjects : TimesProcessed(x) = 0
             /\ ( api.last.name = "modify_page" /\ api.last.error = "none" )
                    => api.last.processed = <<api.last.pages.i>> )

\* a page naming a decodable form and an image was rewritten with recursion
\* disabled
C16_Witness ==
    /\ mode = "api"
    /\ api.last.name = "modify_page"
    /\ RecursionDisabled
    /\ api.last.error = "none"
    /\ api.last.processed = <<0>>
    /\ {FormB, ImageC} \subseteq api.doc.res[0]

\* the last call began with nothing visited
FreshVisited == ~api.last.given \/ api.last.visited0 = {}

\* C17: a modify_page call with recursion enabled that returns has run every
\* decodable form its page's resources lead to, at whatever depth, through
\* the editor and written it back, and has left the other XObjects alone
C17_RecursionEnabled ==
    ( mode = "api" /\ api.last.name = "modify_page" /\ RecursionEnabled
      /\ FreshVisited /\ api.last.error = "none" )
        => ( /\ \A x \in Reachable(api.doc.res[api.last.pages.i]) \cap Forms :
                    api.doc.readable[x] => TimesProcessed(x) > 0
             /\ \A x \in XObjects \ Forms : TimesProcessed(x) = 0 )

(***************************************************************************)
(* Claims about the arguments of process                                   *)
(***************************************************************************)
\* the pages the last call rewrote, in order
PagesProcessed == SelectSeq(api.last.processed, LAMBDA c : c \in PageIds)

\* the selection an argument of a supported type stands for
Selection(arg) ==
    CASE arg.t = "None" -> AllPages
      [] arg.t = "list" -> [ k \in 1 .. Len(arg.items) |-> arg.items[k].i ]
      [] OTHER          -> <<arg.i>>

\* int, Page, None, or a list of int and Page
Supported(arg) ==
    /\ arg.t \in {"None", "int", "Page", "list"}
    /\ \A k \in 1 .. Len(arg.items) : arg.items[k].t \in {"int", "Page"}

\* `pages` when it was given, else `page`
SelectionArg == IF api.last.pages.t # "None" THEN api.last.pages ELSE api.last.page

\* C18: a process call that returns has rewritten exactly the pages its
\* selection names, in order: page i for pages=i (i = 0 included), the page
\* of a Page object, the members of a list, all pages for None; `page`
\* counts only when `pages` was not given
C18_PageSelection ==
    ( mode = "api" /\ api.last.name = "process" /\ api.last.pdf_ok
      /\ api.last.error = "none" /\ Supported(SelectionArg) )
        => PagesProcessed = Selection(SelectionArg)

\* the last call was given something that is not a pikepdf.Pdf, a `pages` of
\* an unsupported type, or a list with an item that is neither int nor Page
Misconfigured ==
    \/ ~api.last.pdf_ok
    \/ api.last.pages.t = "str"
    \/ \E k \in 1 .. Len(api.last.pages.items) :
          api.last.pages.items[k].t \notin {"int", "Page"}

\* C19: a misconfigured process call raises TypeError and has rewritten
\* nothing, the valid list items before the invalid one included
C19_FailFast ==
    ( mode = "api" /\ api.last.name = "process" /\ Misconfigured )
        => ( api.last.error = "TypeError" /\ api.last.processed = <<>> )

(***************************************************************************)
(* registry.py: HandlerRegistry.register                                   *)
(*                                                                         *)
(* _handlers maps an operator to the wrapper registered for it; a wrapper  *)
(* is told apart by the number of the registration that made it.           *)
(***************************************************************************)
MaxRegs == 3        \* registrations made on one registry

allowed_params ==
    { "args", "arguments", "container", "context", "op", "operands",
      "operator", "page", "pdf", "raw_bytes" }

Registry(handlers, nregs, ops, params, error) ==
    [ handlers |-> handlers, nregs |-> nregs,
      last |-> [ ops |-> ops, params |-> params, error |-> error ] ]

modified_operators(r) == DOMAIN r.handlers

\* the loop `for op in ops: self._handlers[op] = wrapper`
add_handlers(handlers, ops, wrapper) ==
    [ op \in DOMAIN handlers \cup ops |->
        IF op \in ops THEN wrapper ELSE handlers[op] ]

\* a variant of register without the check of the parameter names
register_unvalidated(r, ops, params) ==
    Registry(add_handlers(r.handlers, ops, r.nregs + 1), r.nregs + 1,
             ops, params, "none")

\* register(*ops)(func), params being the parameter names of func
register(r, ops, params) ==
    IF \E x \in params : x \notin allowed_params
    THEN Registry(r.handlers, r.nregs + 1, ops, params, "ValueError")
    ELSE Registry(add_handlers(r.handlers, ops, r.nregs + 1), r.nregs + 1,
                  ops, params, "none")

\* the operators and the callbacks a caller registers
RegisteredOps == SUBSET {"Tj", "Tm", "^"} \ { {} }

CallbackParams ==
    { {}, {"operands", "context"}, {"op", "raw_bytes", "page"},
      {"operands", "ctx"}, {"self", "args"}, {"kwargs"} }

InitReg ==
    /\ mode = "registry"
    /\ batch = <<>>
    /\ runs = <<>>
    /\ EditorIdle
    /\ api = <<>>
    /\ norm = <<>>
    /\ ts = <<>>
    /\ reg = Registry(<<>>, 0, {}, {}, "none")

Register ==
    /\ mode = "registry"
    /\ reg.nregs < MaxRegs
    /\ \E ops \in RegisteredOps, params \in CallbackParams :
          reg' = register(reg, ops, params)
    /\ UNCHANGED <<mode, optVars, edVars, api, norm, ts>>

NextReg == Register

SpecReg == InitReg /\ [][NextReg]_vars

(***************************************************************************)
(* Claims about registration                                               *)
(***************************************************************************)
\* C20: registering a callback that declares a parameter name outside the
\* allowed set raises ValueError and leaves _handlers, hence
\* modified_operators and every earlier registration, as it was
C20_RegistrationValidation ==
    [][ ( mode = "registry" /\ reg'.last.params \ allowed_params # {} )
            => ( /\ reg'.last.error = "ValueError"
                 /\ reg'.handlers = reg.handlers
                 /\ modified_operators(reg') = modified_operators(reg) ) ]_vars

\* a rejected registration named one operator that had a handler and one
\* that had none
C20_Witness ==
    /\ mode = "registry"
    /\ reg.last.error = "ValueError"
    /\ reg.last.ops \cap modified_operators(reg) # {}
    /\ reg.last.ops \ modified_operators(reg) # {}

(***************************************************************************)
(* Claims about the two passes of the optimizer                            *)
(***************************************************************************)
\* optimize_ops has been called on the batch
Called == mode = "optimizer" /\ runs # <<>>

\* what pass 1 made of the batch
FirstPass == runs[1].pass1

\* the instruction with this identity in a list that holds it
WithId(ops, id) == ops[PositionOf(ops, id)]

Last(S) == CHOOSE m \in S : \A k \in S : k <= m

NonBarriers == {"BT", "ET", "q", "Q", "cm"}

\* C26: pass 1 removes a Td exactly when a Tm occurs later in the batch with
\* no show-text operator (Tj, TJ, ', ") between them, whatever else (BT, ET,
\* q, Q, cm) stands between; a TD is never removed
C26_DeadStoreTd ==
    Called =>
        \A n \in 1..Len(batch) :
            /\ batch[n].op = "Td" =>
                  ( ~InOutput(FirstPass, n)
                      <=> \E j \in (n + 1)..Len(batch) :
                              batch[j].op = "Tm" /\ NoShowTextBetween(batch, n, j) )
            /\ batch[n].op = "TD" => InOutput(FirstPass, n)

\* a Td was removed although another operator stood between it and the Tm
C26_Witness ==
    /\ Called
    /\ \E n \in 1..Len(batch), j \in 1..Len(batch) :
          /\ n + 1 < j
          /\ batch[n].op = "Td"
          /\ batch[j].op = "Tm"
          /\ \A k \in (n + 1)..(j - 1) : batch[k].op \in NonBarriers
          /\ ~InOutput(FirstPass, n)

TextStateOps == {"Tm", "Td", "Tz", "Tf"}

\* C27: optimize_ops only removes Tm, Td, Tz and Tf instructions or puts a Td
\* in the place of a Tm; every other instruction is in the output with its
\* operands, the order of the instructions is kept and the output is never
\* longer than the input
C27_Frame ==
    Ran =>
        /\ Len(FirstRun.ops) <= Len(batch)
        /\ \A i \in 1..Len(FirstRun.ops) :
              /\ FirstRun.ops[i].id \in 1..Len(batch)
              /\ \/ FirstRun.ops[i] = batch[FirstRun.ops[i].id]
                 \/ /\ batch[FirstRun.ops[i].id].op = "Tm"
                    /\ FirstRun.ops[i].op = "Td"
              /\ i < Len(FirstRun.ops) => FirstRun.ops[i].id < FirstRun.ops[i + 1].id
        /\ \A n \in 1..Len(batch) :
              ~InOutput(FirstRun.ops, n) => batch[n].op \in TextStateOps

\* one instruction was removed and one Tm replaced in a batch that holds a
\* TD, which is none of the four
C27_Witness ==
    /\ Ran
    /\ \E n \in 1..Len(batch) : ~InOutput(FirstRun.ops, n)
    /\ \E n \in 1..Len(batch) :
          /\ batch[n].op = "Tm"
          /\ InOutput(FirstRun.ops, n)
          /\ WithId(FirstRun.ops, n).op = "Td"
    /\ \E n \in 1..Len(batch) : batch[n].op = "TD"

NumericTz(ins) == ins.op = "Tz" /\ FloatAtError(ins.args, 1) = "ok"

SizedTf(ins) == ins.op = "Tf" /\ Len(ins.args) >= 2 /\ FloatAtError(ins.args, 2) = "ok"

\* the instructions before position n of pass 2's input that pass 2 kept
KeptBefore(n) == { m \in 1..(n - 1) : InOutput(FirstRun.ops, FirstPass[m].id) }

KeptTzBefore(n) == { m \in KeptBefore(n) : NumericTz(FirstPass[m]) }

KeptTfBefore(n) == { m \in KeptBefore(n) : SizedTf(FirstPass[m]) }

\* 100 at the start of the batch, then the value of the last Tz kept
TrackedScale(n) ==
    IF KeptTzBefore(n) = {} THEN 100 * Unit
    ELSE FloatValue(FirstPass[Last(KeptTzBefore(n))].args[1])

RedundantTf(n) ==
    /\ KeptTfBefore(n) # {}
    /\ FirstPass[Last(KeptTfBefore(n))].args[1] = FirstPass[n].args[1]
    /\ Abs(FloatValue(FirstPass[n].args[2])
             - FloatValue(FirstPass[Last(KeptTfBefore(n))].args[2])) < TF_TOL

\* C28: pass 2 drops a Tz exactly when its value is within TZ_TOL of the
\* tracked scale (100 at the start, then the value of the last kept Tz) and a
\* Tf exactly when its name equals and its size is within TF_TOL of the last
\* kept Tf, so the first Tf of a batch is kept; show-text operators between
\* do not reset what is tracked
C28_RedundantSets ==
    Ran =>
        \A n \in 1..Len(FirstPass) :
            /\ NumericTz(FirstPass[n]) =>
                  ( ~InOutput(FirstRun.ops, FirstPass[n].id)
                      <=> Abs(FloatValue(FirstPass[n].args[1]) - TrackedScale(n)) < TZ_TOL )
            /\ SizedTf(FirstPass[n]) =>
                  ( ~InOutput(FirstRun.ops, FirstPass[n].id) <=> RedundantTf(n) )

\* a Tf was dropped for repeating the font kept before a show-text, after a
\* Tf of another name and the same size had been kept
C28_Witness ==
    /\ Ran
    /\ \E m \in 1..Len(FirstPass), n \in 1..Len(FirstPass) :
          /\ m + 1 < n
          /\ SizedTf(FirstPass[m])
          /\ SizedTf(FirstPass[n])
          /\ FirstPass[m].args = FirstPass[n].args
          /\ \E k \in (m + 1)..(n - 1) : FirstPass[k].op \in ShowTextOps
          /\ m = Last(KeptTfBefore(n))
          /\ \E k \in KeptTfBefore(m) : FirstPass[k].args[1] # FirstPass[m].args[1]
          /\ ~InOutput(FirstRun.ops, FirstPass[n].id)

TrackingOps == {"Tm", "Td", "BT"}

\* the instructions before position n of pass 2's input that set, move or
\* forget the tracked matrix
TrackingBefore(n) == { m \in 1..(n - 1) : FirstPass[m].op \in TrackingOps }

\* the rule of _try_optimize_tm for a tracked matrix old and a Tm new
Convertible(old, new) ==
    /\ \A i \in 1..4 : Abs(new[i] - old[i]) < TM_TOL
    /\ Abs(old[2]) < TM_TOL
    /\ Abs(old[3]) < TM_TOL
    /\ Abs(old[1]) > TM_TOL
    /\ Abs(old[4]) > TM_TOL

RelativeMove(old, new, id) ==
    Instr("Td",
          <<Num(RoundDiv(new[5] - old[5], old[1] * RoundUnit) * RoundUnit),
            Num(RoundDiv(new[6] - old[6], old[4] * RoundUnit) * RoundUnit)>>,
          id)

\* what pass 2 emits for the well-formed Tm at position n whose tracked
\* matrix is the operands of the Tm at position m
AfterTm(m, n) ==
    IF Convertible(TrackedMatrix(FirstPass[m].args), TrackedMatrix(FirstPass[n].args))
    THEN RelativeMove(TrackedMatrix(FirstPass[m].args),
                      TrackedMatrix(FirstPass[n].args), FirstPass[n].id)
    ELSE FirstPass[n]

\* C29: a Tm is replaced by Td(tx, ty) exactly when a tracked matrix exists,
\* the new a, b, c, d are each within TM_TOL of the tracked ones and the
\* tracked matrix is axis-aligned (|b|, |c| < TM_TOL < |a|, |d|), with
\* tx = (e_new - e_old) / a and ty = (f_new - f_old) / d rounded to four
\* decimals; converted or not, the Tm's six operands are what is tracked for
\* the next Tm
C29_TmToTd ==
    Ran =>
        \A n \in 1..Len(FirstPass) :
            ( FirstPass[n].op = "Tm" /\ WellFormedMatrix(FirstPass[n].args) ) =>
                /\ InOutput(FirstRun.ops, FirstPass[n].id)
                /\ IF TrackingBefore(n) = {}
                   THEN WithId(FirstRun.ops, FirstPass[n].id) = FirstPass[n]
                   ELSE IF FirstPass[Last(TrackingBefore(n))].op = "Tm"
                   THEN WithId(FirstRun.ops, FirstPass[n].id) =
                            IF WellFormedMatrix(FirstPass[Last(TrackingBefore(n))].args)
                            THEN AfterTm(Last(TrackingBefore(n)), n)
                            ELSE FirstPass[n]
                   ELSE TRUE

\* three Tm in a row of show-texts: the second became a Td, and the third,
\* whose linear part matches the first's but not the second's, stayed a Tm
C29_Witness ==
    /\ Ran
    /\ \E l \in 1..Len(FirstPass), m \in 1..Len(FirstPass), n \in 1..Len(FirstPass) :
          /\ l < m /\ m < n
          /\ TrackingBefore(m) = {l}
          /\ TrackingBefore(n) = {l, m}
          /\ \A k \in {l, m, n} :
                FirstPass[k].op = "Tm" /\ WellFormedMatrix(FirstPass[k].args)
          /\ WithId(FirstRun.ops, FirstPass[m].id).op = "Td"
          /\ WithId(FirstRun.ops, FirstPass[m].id).args # <<Num(0), Num(0)>>
          /\ Convertible(TrackedMatrix(FirstPass[l].args), TrackedMatrix(FirstPass[n].args))
          /\ WithId(FirstRun.ops, FirstPass[n].id) = FirstPass[n]

\* C30: after a BT the tracked matrix is unknown, so the first Tm after a BT
\* of the same batch is emitted as a Tm with its operands unchanged, never as
\* a Td; the BT itself is always kept
C30_BTForgetsMatrix ==
    Ran =>
        /\ \A n \in 1..Len(batch) :
              batch[n].op = "BT" =>
                  /\ InOutput(FirstPass, n)
                  /\ InOutput(FirstRun.ops, n)
                  /\ WithId(FirstRun.ops, n) = batch[n]
        /\ \A m \in 1..Len(FirstPass), n \in 1..Len(FirstPass) :
              ( /\ m < n
                /\ FirstPass[m].op = "BT"
                /\ FirstPass[n].op = "Tm"
                /\ NoOpBetween(FirstPass, m, n, "Tm") )
              => ( /\ InOutput(FirstRun.ops, FirstPass[n].id)
                   /\ WithId(FirstRun.ops, FirstPass[n].id) = FirstPass[n] )

\* a Tm that the Tm tracked before the BT would have turned into a Td
C30_Witness ==
    /\ Ran
    /\ \E l \in 1..Len(FirstPass), m \in 1..Len(FirstPass), n \in 1..Len(FirstPass) :
          /\ l < m /\ m < n
          /\ FirstPass[l].op = "Tm" /\ WellFormedMatrix(FirstPass[l].args)
          /\ FirstPass[m].op = "BT"
          /\ FirstPass[n].op = "Tm" /\ WellFormedMatrix(FirstPass[n].args)
          /\ TrackingBefore(n) = {l, m}
          /\ Convertible(TrackedMatrix(FirstPass[l].args), TrackedMatrix(FirstPass[n].args))
          /\ WithId(FirstRun.ops, FirstPass[n].id) = FirstPass[n]

----------------------------------------------------------------------------
(* _normalize_instruction as a program: a value is drawn and normalized.    *)

MaxArity == 3       \* longest tuple handed to _normalize_instruction

\* a string, an operator tag, bytes, an int, an operand list, the marker and
\* the one-element list holding it
NormAtoms ==
    { PyStr("q"), PyOperator("Q"), PyBytes, PyOperand(Num(123)),
      PyList(<<PyOperand(Num(5))>>), ORIGINAL_BYTES, Unchanged }

NormItems ==
    NormAtoms
    \cup { PyTuple(s) : s \in BoundedSeq(NormAtoms, MaxArity) }
    \cup { PyNone, PyList(<<>>), PyList(<<ORIGINAL_BYTES, ORIGINAL_BYTES>>) }

InitNorm ==
    /\ mode = "normalize"
    /\ batch = <<>>
    /\ runs = <<>>
    /\ EditorIdle
    /\ api = <<>>
    /\ reg = <<>>
    /\ ts = <<>>
    /\ norm \in [item : NormItems, result : {<<>>}]

\* one call of _normalize_instruction
Normalize ==
    /\ mode = "normalize"
    /\ norm.result = <<>>
    /\ norm' = [norm EXCEPT !.result = <<normalize_instruction(norm.item)>>]
    /\ UNCHANGED <<mode, optVars, edVars, api, reg, ts>>

NextNorm == Normalize

SpecNorm == InitNorm /\ [][NextNorm]_vars

(***************************************************************************)
(* Claims about normalization                                              *)
(***************************************************************************)
NormalizedItem == mode = "normalize" /\ norm.result # <<>>

ZeroOperands(name) == PyTuple(<<PyList(<<>>), PyOperator(name)>>)

IsPair(x) == x.t = "tuple" /\ Len(x.elems) = 2

IsSugar(x) ==
    \/ x.t \in {"str", "Operator"}
    \/ x.t = "tuple" /\ Len(x.elems) = 1 /\ x.elems[1].t = "str"

SugarName(x) == IF x.t = "tuple" THEN x.elems[1].name ELSE x.name

StepCallsReturning(items) ==
    { i \in 1..Len(ed.calls) : ed.calls[i].n # 0 /\ ed.calls[i].returned = items }

\* this transition invoked the callback of a step and the registry turned the
\* result into this list
StepCallReturned(items) ==
    /\ mode \in EditorModes
    /\ Len(ed'.calls) = Len(ed.calls) + 1
    /\ ed'.calls[Len(ed'.calls)].n # 0
    /\ ed'.calls[Len(ed'.calls)].returned = items

\* C22: when the callback of a step returns the empty list or None, nothing
\* is emitted for the step, and what the other steps contribute, and in which
\* order, is what it would be without the step: the pending buffer, the
\* chunks and the optimizer's batches are as they were before the step
C22_EmptyReturn ==
    [][ StepCallReturned(<<>>) =>
           /\ ed'.pending = ed.pending
           /\ ed'.chunks = ed.chunks
           /\ ed'.optlog = ed.optlog
           /\ ed'.error = ed.error ]_vars

\* the callback returned an empty result for a step between two steps that
\* are serialized in one chunk
C22_Witness ==
    /\ pc = "done"
    /\ \E i \in StepCallsReturning(<<>>) : \E j \in 1..Len(ed.chunks) :
          /\ ed.chunks[j].kind = "ser"
          /\ HasInstrOf(ed.chunks[j].ops, ed.calls[i].n - 1)
          /\ HasInstrOf(ed.chunks[j].ops, ed.calls[i].n + 1)

\* the instruction of step n as the tokenizer gave it
OriginalOf(n) == Instr(steps[n].op, steps[n].operands, n)

Holds(ops, ins) == \E k \in 1..Len(ops) : ops[k] = ins

\* the original instruction of step n is in the pending buffer, or went from
\* there into a batch of the optimizer or, without one, into the output
OriginalBuffered(n) ==
    \/ Holds(ed.pending, OriginalOf(n))
    \/ cfg.optimizer /\ \E b \in 1..Len(ed.optlog) : Holds(ed.optlog[b], OriginalOf(n))
    \/ /\ ~cfg.optimizer
       /\ \E j \in 1..Len(ed.chunks) :
             ed.chunks[j].kind = "ser" /\ Holds(ed.chunks[j].ops, OriginalOf(n))

\* whatever is emitted or buffered for step n stands after everything of
\* earlier steps and before everything of later steps
InStepOrder(o, n) ==
    \A j \in 1..Len(o) : o[j] = n =>
       /\ \A a \in 1..(j - 1) : o[a] # 0 => o[a] <= n
       /\ \A a \in (j + 1)..Len(o) : o[a] # 0 => o[a] >= n

\* C23: when the callback of a step returns the pass-through marker
\* (UNCHANGED, or ORIGINAL_BYTES alone), the instruction with the step's
\* operator and operands, in their order, enters the pending buffer and is
\* emitted at the step's position, subject to the optimizer
C23_PassThroughMarker ==
    \A i \in StepCallsReturning(<<ORIGINAL_BYTES>>) :
        /\ OriginalBuffered(ed.calls[i].n)
        /\ InStepOrder(Origins, ed.calls[i].n)

\* without an optimizer, the original instruction of a step whose callback
\* returned the marker is in the output between those of its neighbours
C23_Witness ==
    /\ pc = "done" /\ ~cfg.optimizer
    /\ \E i \in StepCallsReturning(<<ORIGINAL_BYTES>>) : \E j \in 1..Len(ed.chunks) :
          /\ ed.chunks[j].kind = "ser"
          /\ Holds(ed.chunks[j].ops, OriginalOf(ed.calls[i].n))
          /\ HasInstrOf(ed.chunks[j].ops, ed.calls[i].n - 1)
          /\ HasInstrOf(ed.chunks[j].ops, ed.calls[i].n + 1)

\* C24: a result item that is a one-element list holding the marker is
\* treated like the marker: the original instruction of the step enters the
\* pending buffer and is emitted, never dropped at flush time
C24_MarkerInList ==
    \A i \in StepCallsReturning(<<Unchanged>>) :
        /\ ed.error = ""
        /\ OriginalBuffered(ed.calls[i].n)

(***************************************************************************)
(* Claims about a callback result that cannot be normalized                *)
(***************************************************************************)
\* the last call made again, from the visited set it began with, on the same
\* document with no container faulty
SoundCall ==
    IF api.last.name = "modify_page"
    THEN modify_page([api.doc EXCEPT !.faulty = {}], api.last.pages.i,
                     OptionsArg(api.last.given),
                     Walk(api.last.visited0, <<>>, "none"))
    ELSE process([api.doc EXCEPT !.faulty = {}], api.last.pdf_ok, api.last.pages,
                 api.last.page, OptionsArg(api.last.given),
                 Walk(api.last.visited0, <<>>, "none"))

\* the positions at which that call rewrites a container that is faulty
FaultyReached ==
    { i \in 1..Len(SoundCall.processed) : SoundCall.processed[i] \in api.doc.faulty }

FirstFaulty == CHOOSE i \in FaultyReached : \A j \in FaultyReached : i <= j

\* C25: when a callback result cannot be normalized while container k is
\* processed, the ValueError reaches the caller of process (or modify_page);
\* the content of k is not replaced, the containers processed before k keep
\* their rewritten content, and the containers after k are not processed
C25_NormalizationErrorPropagates ==
    ( mode = "api" /\ api.last.name # "none" /\ FaultyReached # {} ) =>
        /\ api.last.error = "ValueError"
        /\ api.last.processed = SubSeq(SoundCall.processed, 1, FirstFaulty - 1)

\* the error arose in a form, after a container had been rewritten and with
\* containers still to come
C25_Witness ==
    /\ mode = "api"
    /\ api.last.error = "ValueError"
    /\ api.doc.faulty \subseteq Forms
    /\ api.last.processed # <<>>
    /\ Len(SoundCall.processed) > Len(api.last.processed) + 1

----------------------------------------------------------------------------
(* Claims about a Td in pass 2 *)

\* float() succeeds on the two operands of the Td
NumericTd(ins) ==
    /\ FloatAtError(ins.args, 1) = "ok"
    /\ FloatAtError(ins.args, 2) = "ok"

\* e += tx * a + ty * c and f += tx * b + ty * d
MovedBy(mat, ins) ==
    [mat EXCEPT
        ![5] = mat[5] + (FloatValue(ins.args[1]) * mat[1]) + (FloatValue(ins.args[2]) * mat[3]),
        ![6] = mat[6] + (FloatValue(ins.args[1]) * mat[2]) + (FloatValue(ins.args[2]) * mat[4])]

\* the matrix mat moved by every Td at the positions k..(n - 1) of pass 2's
\* input
RECURSIVE MovedThrough(_, _, _)
MovedThrough(mat, k, n) ==
    IF k >= n THEN mat
    ELSE IF FirstPass[k].op = "Td"
    THEN MovedThrough(MovedBy(mat, FirstPass[k]), k + 1, n)
    ELSE MovedThrough(mat, k + 1, n)

\* the positions between m and n of pass 2's input that hold a Td
TdBetween(m, n) == { k \in (m + 1)..(n - 1) : FirstPass[k].op = "Td" }

\* a well-formed Tm at m, then at least one Td and neither Tm, BT nor TD,
\* then a well-formed Tm at n
TmTdTm(m, n) ==
    /\ m < n
    /\ FirstPass[m].op = "Tm" /\ WellFormedMatrix(FirstPass[m].args)
    /\ FirstPass[n].op = "Tm" /\ WellFormedMatrix(FirstPass[n].args)
    /\ TdBetween(m, n) # {}
    /\ \A k \in (m + 1)..(n - 1) : FirstPass[k].op \notin {"Tm", "BT", "TD"}

\* what pass 2 emits for the Tm at n when old is the tracked matrix
AfterTracked(old, n) ==
    IF Convertible(old, TrackedMatrix(FirstPass[n].args))
    THEN RelativeMove(old, TrackedMatrix(FirstPass[n].args), FirstPass[n].id)
    ELSE FirstPass[n]

\* C31: pass 2 emits every Td unchanged; a tracked matrix is moved by
\* e += tx*a + ty*c, f += tx*b + ty*d, so that a later Tm of the batch is
\* converted to the offset from the position reached after the Td, not from
\* the earlier Tm; a Td whose operands are no numbers forgets the tracked
\* matrix, and the later Tm stays a Tm
C31_TdMovesTracked ==
    Ran =>
        /\ \A n \in 1..Len(FirstPass) :
              FirstPass[n].op = "Td" =>
                  /\ InOutput(FirstRun.ops, FirstPass[n].id)
                  /\ WithId(FirstRun.ops, FirstPass[n].id) = FirstPass[n]
        /\ \A m \in 1..Len(FirstPass), n \in 1..Len(FirstPass) :
              TmTdTm(m, n) =>
                  /\ InOutput(FirstRun.ops, FirstPass[n].id)
                  /\ WithId(FirstRun.ops, FirstPass[n].id) =
                        IF \A k \in TdBetween(m, n) : NumericTd(FirstPass[k])
                        THEN AfterTracked(
                                 MovedThrough(TrackedMatrix(FirstPass[m].args), m + 1, n), n)
                        ELSE FirstPass[n]

\* a Tm after a Td after a Tm became a Td whose offset is not the one from
\* the earlier Tm
C31_Witness ==
    /\ Ran
    /\ \E m \in 1..Len(FirstPass), n \in 1..Len(FirstPass) :
          /\ TmTdTm(m, n)
          /\ \A k \in TdBetween(m, n) : NumericTd(FirstPass[k])
          /\ WithId(FirstRun.ops, FirstPass[n].id).op = "Td"
          /\ WithId(FirstRun.ops, FirstPass[n].id) # AfterTm(m, n)
          /\ \E k \in TdBetween(m, n) :
                WithId(FirstRun.ops, FirstPass[k].id) = FirstPass[k]

\* a Td with operands that are no numbers stood between two Tm that the rule
\* would otherwise have joined
C31_WitnessForgotten ==
    /\ Ran
    /\ \E m \in 1..Len(FirstPass), n \in 1..Len(FirstPass) :
          /\ TmTdTm(m, n)
          /\ \E k \in TdBetween(m, n) : ~NumericTd(FirstPass[k])
          /\ AfterTm(m, n).op = "Td"
          /\ WithId(FirstRun.ops, FirstPass[n].id) = FirstPass[n]

----------------------------------------------------------------------------
(* Claims about the order of the output of StreamEditor.process *)

\* "bytes" for the bytes of step n, "instr" for an instruction of step n, in
\* the order in which the chunks from i on and the pending buffer hold them
RECURSIVE EmittedFor(_, _)
EmittedFor(n, i) ==
    IF i > Len(ed.chunks)
    THEN [k \in 1..Len(SelectSeq(ed.pending, LAMBDA x : x.id = n)) |-> "instr"]
    ELSE IF ed.chunks[i].kind = "ser"
         THEN [k \in 1..Len(SelectSeq(ed.chunks[i].ops, LAMBDA x : x.id = n)) |-> "instr"]
              \o EmittedFor(n, i + 1)
    ELSE IF ed.chunks[i].kind \in {"raw", "inj"} /\ ed.chunks[i].step = n
         THEN <<"bytes">> \o EmittedFor(n, i + 1)
    ELSE EmittedFor(n, i + 1)

\* what _buffer_modified_op makes of the items from i on of a returned list
\* that it can normalize: bytes, an instruction, or nothing for a marker
\* inside a list
RECURSIVE ReturnedFrom(_, _)
ReturnedFrom(items, i) ==
    IF i > Len(items) THEN <<>>
    ELSE IF items[i] = ORIGINAL_BYTES THEN <<"instr">> \o ReturnedFrom(items, i + 1)
    ELSE IF normalize_instruction(items[i]).value.t = "bytes"
         THEN <<"bytes">> \o ReturnedFrom(items, i + 1)
    ELSE IF normalize_instruction(items[i]).value = ORIGINAL_BYTES
         THEN ReturnedFrom(items, i + 1)
    ELSE <<"instr">> \o ReturnedFrom(items, i + 1)

\* a is b without some of its instructions (those a configured optimizer
\* removed), and is b without an optimizer
RECURSIVE WithoutSomeInstr(_, _)
WithoutSomeInstr(a, b) ==
    IF b = <<>> THEN a = <<>>
    ELSE IF a # <<>> /\ Head(a) = Head(b) /\ WithoutSomeInstr(Tail(a), Tail(b)) THEN TRUE
    ELSE Head(b) = "instr" /\ WithoutSomeInstr(a, Tail(b))

KeepsBytes(a, b) ==
    IF cfg.optimizer THEN WithoutSomeInstr(a, b) ELSE a = b

Nondecreasing(o) == \A i \in 1..(Len(o) - 1) : o[i] <= o[i + 1]

\* C33: raw bytes (of a step that is not eligible, or returned by a callback)
\* are appended only after the pending buffer was flushed: all that is
\* emitted for a step stands before all that is emitted for a later step,
\* the bytes and the instructions a callback returned for a step stand in
\* the order in which it returned them, the bytes always and as a chunk of
\* their own that no optimizer sees, and the pending buffer is empty when
\* process() returns
C33_EmissionOrder ==
    /\ Nondecreasing(SelectSeq(Origins, LAMBDA n : n >= 1))
    /\ ed.error = "" =>
          \A k \in 1..Len(StepInvocations) :
              KeepsBytes(EmittedFor(StepInvocations[k].n, 1),
                         ReturnedFrom(StepInvocations[k].returned, 1))
    /\ pc = "done" => ed.pending = <<>>

\* an optimizer is configured; a callback returned an instruction and then
\* bytes while instructions of an earlier step were pending, and a later
\* step was emitted as raw bytes while an instruction was pending
C33_Witness ==
    /\ pc = "done" /\ cfg.optimizer
    /\ \E k \in 1..Len(StepInvocations) :
          /\ ReturnedFrom(StepInvocations[k].returned, 1) = <<"instr", "bytes", "instr">>
          /\ \E i \in 3..Len(ed.chunks) :
                /\ ed.chunks[i].kind = "inj"
                /\ ed.chunks[i].step = StepInvocations[k].n
                /\ ed.chunks[i - 1].kind = "sep"
                /\ ed.chunks[i - 2].kind = "ser"
                /\ \E m \in StepsOfChunk(ed.chunks[i - 2]) :
                      m >= 1 /\ m < StepInvocations[k].n
                /\ StepInvocations[k].n \in StepsOfChunk(ed.chunks[i - 2])
    /\ \E i \in 2..Len(ed.chunks) :
          /\ ed.chunks[i].kind = "raw"
          /\ \E j \in 1..(i - 1) : ed.chunks[j].kind = "ser"

----------------------------------------------------------------------------
(* Claims about the whitespace between chunks *)

IsSeparator(chunk) == chunk.kind = "sep"

\* C34: a chunk appended after another is preceded by exactly one inserted
\* whitespace byte if and only if neither the previous chunk ends nor the new
\* chunk starts with whitespace, so that any two consecutive chunks have
\* whitespace between them; an empty chunk adds nothing, not even a
\* separator; what process() returns is the chunks and one newline
C34_ChunkSeparation ==
    /\ \A i \in 1..Len(ed.chunks) :
          /\ ~ed.chunks[i].empty
          /\ IsSeparator(ed.chunks[i]) =>
                /\ 1 < i /\ i < Len(ed.chunks)
                /\ ~IsSeparator(ed.chunks[i - 1]) /\ ~ed.chunks[i - 1].trail
                /\ ~IsSeparator(ed.chunks[i + 1]) /\ ~ed.chunks[i + 1].lead
          /\ ( i < Len(ed.chunks) /\ ~IsSeparator(ed.chunks[i])
               /\ ~IsSeparator(ed.chunks[i + 1]) )
                => ( ed.chunks[i].trail \/ ed.chunks[i + 1].lead )
    /\ \A n \in 1..Len(steps) : steps[n].empty => RawChunksOf(n) = {}
    /\ pc = "done" => ed.result = Append(ed.chunks, Newline)
    /\ pc # "done" => ed.result = <<>>

\* process() returned chunks with an inserted separator, two chunks that
\* needed none, and a step without raw bytes stood between two steps that
\* were emitted as raw bytes
C34_Witness ==
    /\ pc = "done"
    /\ ed.result # <<>> /\ ed.result[Len(ed.result)] = Newline
    /\ \E i \in 1..Len(ed.chunks) : IsSeparator(ed.chunks[i])
    /\ \E i \in 1..(Len(ed.chunks) - 1) :
          ~IsSeparator(ed.chunks[i]) /\ ~IsSeparator(ed.chunks[i + 1])
    /\ \E n \in 2..(Len(steps) - 1) :
          /\ steps[n].empty
          /\ RawChunksOf(n - 1) # {} /\ RawChunksOf(n + 1) # {}
          /\ ~HasInstrOf(ed.pending, n)
          /\ \A i \in 1..Len(ed.chunks) : n \notin StepsOfChunk(ed.chunks[i])

----------------------------------------------------------------------------
(* Claims about the state snapshots a callback sees *)

\* the snapshot the tokenizer yielded with step n, none before the first
StateAfter(n) == IF n = 0 THEN 0 ELSE steps[n].state

\* C35: the context of the callback invocation for step k has the snapshot
\* yielded with step k - 1 as its pre-state (none for the first step) and the
\* snapshot yielded with step k as its post-state, whatever happened to the
\* steps before k: callback, buffer, or raw bytes
C35_ContextSnapshots ==
    \A i \in 1..Len(ed.calls) :
        IsStepCall(ed.calls[i]) =>
            /\ ed.calls[i].pre_input = StateAfter(ed.calls[i].n - 1)
            /\ ed.calls[i].post_input = StateAfter(ed.calls[i].n)

\* the callback was invoked for the first step, and for a step that follows
\* a step emitted as raw bytes for its operands, itself after a buffered step
C35_Witness ==
    /\ pc = "done" /\ cfg.optimizer
    /\ \E i \in 1..Len(ed.calls) :
          /\ ed.calls[i].n = 1
          /\ ed.calls[i].pre_input = 0 /\ ed.calls[i].post_input = 1
    /\ \E i \in 1..Len(ed.calls) :
          /\ ed.calls[i].n >= 3
          /\ ed.calls[i].pre_input = ed.calls[i].n - 1
          /\ HasOutOfRangeInt(steps[ed.calls[i].n - 1])
          /\ steps[ed.calls[i].n - 2].op \in relevant_operators \ cfg.handler_ops

\* C36: at every callback invocation, the one for '$' at the end of the
\* stream included, the state tracker handed to the callback has ingested
\* the snapshot that the context reports as its pre-state, whenever that
\* snapshot is not empty
C36_TrackerAtPreState ==
    \A i \in 1..Len(ed.calls) :
        ed.calls[i].pre_input # 0 => ed.calls[i].tracker = ed.calls[i].pre_input

----------------------------------------------------------------------------
(* Claims about the editor without an optimizer *)

\* the step of a callback invocation
StepOfCall(call) == IF call.n = 0 THEN SpecialStep(call.op) ELSE steps[call.n]

\* the instructions _buffer_modified_op makes of the items from i on of what
\* a callback returned: the pairs, and the step's own instruction for a marker
RECURSIVE ProducedFrom(_, _, _)
ProducedFrom(step, items, i) ==
    IF i > Len(items) THEN <<>>
    ELSE IF items[i] = ORIGINAL_BYTES
         THEN <<Instr(step.op, step.operands, step.n)>> \o ProducedFrom(step, items, i + 1)
    ELSE IF \/ normalize_instruction(items[i]).error # ""
            \/ normalize_instruction(items[i]).value.t = "bytes"
            \/ normalize_instruction(items[i]).value = ORIGINAL_BYTES
         THEN ProducedFrom(step, items, i + 1)
    ELSE <<PendingEntry(normalize_instruction(items[i]).value, step.n)>>
         \o ProducedFrom(step, items, i + 1)

\* what the invocations from i on produced, in the order of the invocations
RECURSIVE ProducedByCalls(_)
ProducedByCalls(i) ==
    IF i > Len(ed.calls) THEN <<>>
    ELSE ProducedFrom(StepOfCall(ed.calls[i]), ed.calls[i].returned, 1)
         \o ProducedByCalls(i + 1)

\* the instructions serialized into the chunks from i on, then the pending
\* ones
RECURSIVE InstructionsFrom(_)
InstructionsFrom(i) ==
    IF i > Len(ed.chunks) THEN SelectSeq(ed.pending, NotBytesOrSentinel)
    ELSE ed.chunks[i].ops \o InstructionsFrom(i + 1)

\* C37: without an optimizer a step whose operator only the optimizer asks
\* for (Tm, Td, TD, q, Q, cm, BT, ET, Tf, Tz with no callback) is not
\* buffered but emitted as its raw bytes, and the instructions that are
\* serialized are exactly the ones the callbacks produced, unchanged and in
\* the order in which they were produced
C37_WithoutOptimizer ==
    ~cfg.optimizer =>
        /\ \A n \in 1..Len(steps) :
              ( Processed(n) /\ steps[n].op \in relevant_operators \ cfg.handler_ops )
                 => EmittedVerbatim(n) /\ InOriginalPosition(n)
        /\ ed.optlog = <<>>
        /\ ed.error = "" => InstructionsFrom(1) = ProducedByCalls(1)

\* no optimizer: a Tm without a callback stands as raw bytes between the
\* serialized instructions of two invocations that produced two each
C37_Witness ==
    /\ pc = "done" /\ ~cfg.optimizer
    /\ \E n \in 2..(Len(steps) - 1) :
          /\ steps[n].op = "Tm" /\ "Tm" \notin cfg.handler_ops
          /\ RawChunksOf(n) # {}
          /\ \E i \in 1..Len(ed.calls), j \in 1..Len(ed.calls) :
                /\ ed.calls[i].n = n - 1 /\ ed.calls[j].n = n + 1
                /\ Len(ProducedFrom(steps[n - 1], ed.calls[i].returned, 1)) = 2
                /\ Len(ProducedFrom(steps[n + 1], ed.calls[j].returned, 1)) = 2
    /\ Len(InstructionsFrom(1)) = 4

----------------------------------------------------------------------------
(* Claims about what the callbacks of '^' and '$' return *)

\* C40: whatever the callbacks of '^' and '$' return, the pass-through
\* marker included, no instruction whose operator is '^' or '$' (none with
\* null operands) is appended to the pending buffer or serialized
C40_TagsNeverBuffered ==
    /\ \A i \in 1..Len(ed.pending) : ~NullOperands(ed.pending[i])
    /\ \A i \in 1..Len(ed.chunks) : \A k \in 1..Len(ed.chunks[i].ops) :
          ~NullOperands(ed.chunks[i].ops[k])
    /\ \A b \in 1..Len(ed.optlog) : \A k \in 1..Len(ed.optlog[b]) :
          ~NullOperands(ed.optlog[b][k])

----------------------------------------------------------------------------
(* Claims about the editor with an optimizer and no show-text buffered *)

IsSerialized(chunk) == chunk.kind = "ser"

\* the serialized chunks, one for each batch flushed
SerializedChunks == SelectSeq(ed.chunks, IsSerialized)

HasShowText(ops) == \E i \in 1..Len(ops) : ops[i].op \in ShowTextOps

\* C32: with an optimizer, a flushed batch that no show-text instruction has
\* entered is serialized with at most one Tm, and every Td serialized for it
\* is a Td of the batch, from a step or from a callback: no Tm is converted
\* to a Td.  When no show-text instruction ever enters the pending buffer,
\* this holds for every batch
C32_NoConversionWithoutShowText ==
    cfg.optimizer =>
        /\ Len(SerializedChunks) <= Len(ed.optlog)
        /\ Len(ed.optlog) <= Len(SerializedChunks) + 1
        /\ ed.error = "" => Len(ed.optlog) = Len(SerializedChunks)
        /\ \A b \in 1..Len(SerializedChunks) :
              ~HasShowText(ed.optlog[b]) =>
                 /\ \A k \in 1..Len(SerializedChunks[b].ops) :
                       SerializedChunks[b].ops[k].op = "Td" =>
                          \E i \in 1..Len(ed.optlog[b]) :
                             ed.optlog[b][i] = SerializedChunks[b].ops[k]
                 /\ Cardinality({ k \in 1..Len(SerializedChunks[b].ops) :
                                     SerializedChunks[b].ops[k].op = "Tm" }) <= 1

\* no show-text was ever buffered; a batch with two Tm and a Td that a
\* callback passed through was serialized as one Tm and that Td
C32_Witness ==
    /\ pc = "done" /\ cfg.optimizer
    /\ \A b \in 1..Len(ed.optlog) : ~HasShowText(ed.optlog[b])
    /\ \E b \in 1..Len(SerializedChunks) :
          /\ Cardinality({ i \in 1..Len(ed.optlog[b]) : ed.optlog[b][i].op = "Tm" }) >= 2
          /\ \E k \in 1..Len(SerializedChunks[b].ops) :
                /\ SerializedChunks[b].ops[k].op = "Td"
                /\ \E i \in 1..Len(ed.calls) :
                      ed.calls[i].n = SerializedChunks[b].ops[k].id
          /\ \E k \in 1..Len(SerializedChunks[b].ops) :
                SerializedChunks[b].ops[k].op = "Tm"

\* a batch with a show-text between two Tm: the second Tm became a Td
C32_WitnessConverted ==
    /\ pc = "done" /\ cfg.optimizer
    /\ \E b \in 1..Len(SerializedChunks) :
          /\ HasShowText(ed.optlog[b])
          /\ \E k \in 1..Len(SerializedChunks[b].ops) :
                /\ SerializedChunks[b].ops[k].op = "Td"
                /\ \E i \in 1..Len(ed.optlog[b]) :
                      /\ ed.optlog[b][i].id = SerializedChunks[b].ops[k].id
                      /\ ed.optlog[b][i].op = "Tm"

----------------------------------------------------------------------------
(* Claims about a form that cannot be read *)

\* FormA and FormB do not name each other
Acyclic == ~( FormB \in api.doc.res[FormA] /\ FormA \in api.doc.res[FormB] )

\* the pages the last call has to process, as the code resolves them
PagesToProcess ==
    IF api.last.name = "modify_page" THEN <<api.last.pages.i>>
    ELSE resolve_pages(PagesOrPage(api.last.pages, api.last.page)).sel

Resolvable ==
    \/ api.last.name = "modify_page"
    \/ /\ api.last.pdf_ok
       /\ resolve_pages(PagesOrPage(api.last.pages, api.last.page)).error = "none"

\* the options object of the last call had not visited x when the call began
NotYetVisited(x) == ~api.last.given \/ x \notin api.last.visited0

\* C38: when reading a form fails with PdfError, the error does not leave
\* modify_page (or process), the form's content is not replaced, and the
\* walk goes on: the other forms of the same resource dictionary and the
\* remaining pages are processed
C38_UnreadableFormSkipped ==
    ( mode = "api" /\ api.last.name # "none" /\ ~api.doc.readable[FormA] ) =>
        /\ api.last.error # "PdfError"
        /\ TimesProcessed(FormA) = 0
        /\ ( Acyclic /\ Resolvable ) =>
              /\ api.last.error = "none"
              /\ PagesProcessed = PagesToProcess
              /\ RecursionEnabled =>
                    \A k \in 1..Len(PagesToProcess) :
                        \A y \in (api.doc.res[PagesToProcess[k]] \cap Forms) \ {FormA} :
                            NotYetVisited(y) => TimesProcessed(y) > 0

\* a process call over two pages that both name the unreadable form, the
\* first next to a readable one: both pages and the readable form were
\* rewritten
C38_Witness ==
    /\ mode = "api" /\ api.last.name = "process"
    /\ ~api.doc.readable[FormA]
    /\ RecursionEnabled /\ NotYetVisited(FormA) /\ NotYetVisited(FormB)
    /\ Len(PagesToProcess) = 2
    /\ {FormA, FormB} \subseteq api.doc.res[PagesToProcess[1]]
    /\ FormA \in api.doc.res[PagesToProcess[2]]
    /\ api.last.error = "none"
    /\ api.last.processed = <<PagesToProcess[1], FormB, PagesToProcess[2]>>

----------------------------------------------------------------------------
(***************************************************************************)
(* state_iterator.py: the text operators of StreamStateIterator            *)
(*                                                                         *)
(* textstate.matrix is (a, b, c, d, e, f); textstate.linematrix is the     *)
(* pair (g, h) by which the start of the line differs from (e, f).  a, b,  *)
(* c, d are integers here; e, f, g, h count units of 1/TextUnit, in which  *)
(* item / 1000 and scaling / 100 are exact.                                *)
(***************************************************************************)
MaxOps == 3         \* text operators executed on one text state

TextUnit == 100000

TextState(matrix, linematrix, font, fontsize, scaling, charspace, wordspace) ==
    [ matrix |-> matrix, linematrix |-> linematrix, font |-> font,
      fontsize |-> fontsize, scaling |-> scaling, charspace |-> charspace,
      wordspace |-> wordspace ]

\* do_Td: the line matrix is the text matrix moved by (g, h); the new text
\* matrix is the translation by (tx, ty) times it, and (g, h) becomes (0, 0)
do_Td(t, tx, ty) ==
    [t EXCEPT
        !.matrix =
            << t.matrix[1], t.matrix[2], t.matrix[3], t.matrix[4],
               ((tx * t.matrix[1]) + (ty * t.matrix[3])) * TextUnit
                   + t.matrix[5] + t.linematrix[1],
               ((tx * t.matrix[2]) + (ty * t.matrix[4])) * TextUnit
                   + t.matrix[6] + t.linematrix[2] >>,
        !.linematrix = <<0, 0>>]

\* the items of a TJ array: a number, a string of n bytes, anything else
KernItem(n) == [k |-> "num", v |-> n]

StringItem(n) == [k |-> "str", v |-> n]

OtherItem == [k |-> "other", v |-> 0]

\* ts.font.string_width(item) in thousandths: the font's metrics
string_width(item) == 600 * item.v

\* item.count(b" ")
SpaceCount(item) == IF item.v >= 2 THEN 1 ELSE 0

\* what one item adds to tx_accum, in units of 1/TextUnit
item_advance(t, item) ==
    IF item.k = "num" THEN 0 - (item.v * t.fontsize * t.scaling)
    ELSE IF item.k = "str"
    THEN ( (string_width(item) * t.fontsize)
           + (1000 * item.v * t.charspace)
           + (1000 * SpaceCount(item) * t.wordspace) ) * t.scaling
    ELSE 0

\* the loop of do_TJ over seq
RECURSIVE accumulate_tx(_, _, _)
accumulate_tx(t, seq, i) ==
    IF i > Len(seq) THEN 0
    ELSE item_advance(t, seq[i]) + accumulate_tx(t, seq, i + 1)

\* variant: the delta is not compensated
set_matrices_uncompensated(t, tx_accum) ==
    [t EXCEPT
        !.matrix = << t.matrix[1], t.matrix[2], t.matrix[3], t.matrix[4],
                      t.matrix[5] + (tx_accum * t.matrix[1]),
                      t.matrix[6] + (tx_accum * t.matrix[2]) >>]

\* _set_matrices_for_kerning_block
set_matrices_for_kerning_block(t, tx_accum) ==
    [t EXCEPT
        !.matrix = << t.matrix[1], t.matrix[2], t.matrix[3], t.matrix[4],
                      t.matrix[5] + (tx_accum * t.matrix[1]),
                      t.matrix[6] + (tx_accum * t.matrix[2]) >>,
        !.linematrix = << t.linematrix[1] - (tx_accum * t.matrix[1]),
                          t.linematrix[2] - (tx_accum * t.matrix[2]) >>]

do_TJ(t, seq) ==
    IF ~t.font THEN t
    ELSE set_matrices_for_kerning_block(t, accumulate_tx(t, seq, 1))

(***************************************************************************)
(* The program exercising the text operators: TJ and Td in any order on a  *)
(* text state as a Tm leaves it.                                           *)
(***************************************************************************)
\* upright, scaled and moved, rotated by a quarter turn
TextMatrices ==
    { <<1, 0, 0, 1, 0, 0>>,
      <<2, 0, 0, 2, 10 * TextUnit, 20 * TextUnit>>,
      <<0, 1, -1, 0, 5 * TextUnit, 5 * TextUnit>> }

TextStates ==
    { TextState(m, <<0, 0>>, font, 10, scaling, charspace, 1) :
        m \in TextMatrices, font \in BOOLEAN, scaling \in {100, 50},
        charspace \in {0, 1} }

TJSequences ==
    { <<KernItem(500)>>,
      <<StringItem(2), KernItem(-250), StringItem(1)>>,
      <<OtherItem>> }

TdMoves == { <<10, 20>>, <<0, -12>> }

\* an executed operator and the text state it found
TextOp(op, args, before) == [op |-> op, args |-> args, before |-> before]

InitText ==
    /\ mode = "iterator"
    /\ batch = <<>>
    /\ runs = <<>>
    /\ EditorIdle
    /\ api = <<>>
    /\ reg = <<>>
    /\ norm = <<>>
    /\ ts \in [cur : TextStates, log : {<<>>}]

DoTJ ==
    /\ mode = "iterator"
    /\ Len(ts.log) < MaxOps
    /\ \E seq \in TJSequences :
          ts' = [cur |-> do_TJ(ts.cur, seq),
                 log |-> Append(ts.log, TextOp("TJ", seq, ts.cur))]
    /\ UNCHANGED <<mode, optVars, edVars, api, reg, norm>>

DoTd ==
    /\ mode = "iterator"
    /\ Len(ts.log) < MaxOps
    /\ \E move \in TdMoves :
          ts' = [cur |-> do_Td(ts.cur, move[1], move[2]),
                 log |-> Append(ts.log, TextOp("Td", move, ts.cur))]
    /\ UNCHANGED <<mode, optVars, edVars, api, reg, norm>>

NextText == DoTJ \/ DoTd

SpecText == InitText /\ [][NextText]_vars

----------------------------------------------------------------------------
(* Claims about the start of the text line *)

\* the text state that the k-th operator left
TextAfter(k) == IF k = Len(ts.log) THEN ts.cur ELSE ts.log[k + 1].before

\* the translation of the text-line matrix: (e + g, f + h)
LineStart(t) ==
    << t.matrix[5] + t.linematrix[1], t.matrix[6] + t.linematrix[2] >>

\* translation(tx, ty) times the line matrix with linear part a, b, c, d and
\* translation start
MovedLine(t, start, tx, ty) ==
    << t.matrix[1], t.matrix[2], t.matrix[3], t.matrix[4],
       ((tx * t.matrix[1]) + (ty * t.matrix[3])) * TextUnit + start[1],
       ((tx * t.matrix[2]) + (ty * t.matrix[4])) * TextUnit + start[2] >>

\* C39: do_TJ leaves the start of the text line (the translation of the text
\* matrix plus the delta) and the linear part where they were, whatever the
\* sequence, so that a Td(tx, ty) that follows sets the text matrix to the
\* translation by (tx, ty) of the line matrix as it was before the TJ and
\* the delta to zero; without a font do_TJ changes nothing of the text state
C39_LineStartKept ==
    mode = "iterator" =>
        \A k \in 1..Len(ts.log) :
            ts.log[k].op = "TJ" =>
                /\ LineStart(TextAfter(k)) = LineStart(ts.log[k].before)
                /\ \A i \in 1..4 : TextAfter(k).matrix[i] = ts.log[k].before.matrix[i]
                /\ ~ts.log[k].before.font => TextAfter(k) = ts.log[k].before
                /\ ( k < Len(ts.log) /\ ts.log[k + 1].op = "Td" ) =>
                      /\ TextAfter(k + 1).matrix =
                            MovedLine(ts.log[k].before, LineStart(ts.log[k].before),
                                      ts.log[k + 1].args[1], ts.log[k + 1].args[2])
                      /\ TextAfter(k + 1).linematrix = <<0, 0>>

\* a TJ with a font moved the text matrix of a line that an earlier TJ had
\* already left, and the Td after it started from the start of the line
C39_Witness ==
    /\ mode = "iterator"
    /\ Len(ts.log) = 3
    /\ ts.log[1].op = "TJ" /\ ts.log[2].op = "TJ" /\ ts.log[3].op = "Td"
    /\ ts.log[2].before.font
    /\ ts.log[2].before.linematrix # <<0, 0>>
    /\ ts.log[3].before.matrix # ts.log[2].before.matrix
    /\ ts.log[2].before.matrix[2] # 0
    /\ ts.cur.matrix =
          MovedLine(ts.log[1].before, LineStart(ts.log[1].before),
                    ts.log[3].args[1], ts.log[3].args[2])
    /\ ts.cur.matrix #
          MovedLine(ts.log[3].before,
                    <<ts.log[3].before.matrix[5], ts.log[3].before.matrix[6]>>,
                    ts.log[3].args[1], ts.log[3].args[2])

====
